---- MODULE Spec2Model ----
(***************************************************************************)
(* Reliable-data-transfer protocols of the repository, as state machines:  *)
(*   - Go-Back-N sender and receiver          (src/fase2/gbn.py)           *)
(*   - rdt2.1 and rdt3.0 stop-and-wait pairs  (src/fase1/rdt21.py, rdt30.py)*)
(*   - the simplified TCP socket              (src/fase3/tcp_socket.py)    *)
(* exchanging frames through the unreliable channel of                     *)
(* src/utils/simulator.py.  Each protocol has its own specification; the   *)
(* variables of the other protocols stay parked at their initial values.   *)
(*                                                                         *)
(* A frame in flight is a record [type, seq, data, ok]: what the codec's   *)
(* parse_packet returns for the bytes on the wire (utils/packet.py is not  *)
(* part of the sources; its contract is the one of the Frame Codec         *)
(* section: a corrupted frame parses with valid = false).  A channel is    *)
(* the set of frames in flight: delivery order is free (every frame gets   *)
(* its own random delay), and a frame equal to one already in flight is    *)
(* absorbed by it.                                                         *)
(***************************************************************************)
EXTENDS Integers, Sequences, FiniteSets, TLC

(***************************************************************************)
(* Bounds of the model.                                                    *)
(***************************************************************************)
MaxCalls == 4        \* rdt_send calls made by the application (Go-Back-N)
MaxRetx == 1         \* the retransmission counters saturate at this value
MaxMsgs == 2         \* rdt_send calls made by the application (stop-and-wait)
MaxInFlight == 2     \* frames a stop-and-wait channel holds in one direction
MaxSends == 10       \* rdt_send calls made by the application (rdt2.1)
MaxBytes == 4        \* bytes the application passes to send() (TCP)
MaxQueue == 2        \* datagrams queued towards one TCP endpoint
MaxCorrupt == 3      \* frames the rdt2.0 channel corrupts
MaxRun == 17         \* rdt_send calls of a run over the timely channel
MaxUpdates == 3      \* _update_rtt calls of one run of the estimator
MaxRtt == 2          \* largest round-trip time, in seconds

(***************************************************************************)
(* Program parameters.                                                     *)
(***************************************************************************)
N == 2               \* GBNSender window_size (constructor argument)

\* SimpleTCPSocket's class constants, scaled down from 4096 and 1024 bytes:
\* the window still holds more than one full segment without being a
\* multiple of the segment size.
DEFAULT_RECV_WINDOW == 3
MAX_SEGMENT_SIZE == 2
INITIAL_TIMEOUT == 2 \* seconds

\* Times are whole numbers of 1/Scale s: fine enough for MaxUpdates calls
\* of _update_rtt on multiples of half a second to be exact.
Scale == 2 ^ (3 * MaxUpdates + 3)

\* the values random.randint(0, 10000) draws for an initial sequence number:
\* two of them, further apart than the window
ISNs == {0, 5}

Endpoints == {"A", "B"}   \* A opens actively and sends, B listens

Garbage == -1        \* payload read from a corrupted frame
Empty == 0           \* the empty payload of an ACK or NAK frame

VARIABLES
  \* ---- Go-Back-N sender (GBNSender)
  base,              \* self.base
  nextseqnum,        \* self.nextseqnum
  sndpkt,            \* self.sndpkt: seq -> payload of the buffered frame
  gbnTimer,          \* TRUE iff self.timer is a pending threading.Timer
  gbnRetransmissions,\* self.retransmissions (saturating at MaxRetx)
  sendPc,            \* position of the caller's thread inside rdt_send
  handlerPc,         \* position of the timer thread inside _timeout_handler
  handlerSeq,        \* loop variable seq of _timeout_handler
  handlerEnd,        \* upper end of range(self.base, self.nextseqnum)
  ackThread,         \* TRUE iff self.ack_thread is alive
  calls,             \* number of rdt_send calls made so far
  accepted,          \* payloads for which rdt_send returned True, in order
  \* ---- Go-Back-N receiver (GBNReceiver)
  expectedseqnum,    \* self.expectedseqnum
  rcvSndpkt,         \* self.sndpkt: sequence number of the stored ACK frame
  messages,          \* self.messages: payloads delivered upward
  \* ---- channel between them
  dataChan,          \* frames in flight sender -> receiver
  ackChan,           \* frames in flight receiver -> sender
  packetState,       \* GBNBoundedLossChannel._packet_state: seq -> state
  \* ---- rdt3.0 sender (RDT30Sender)
  rdt30State,        \* self.state
  rdt30Sndpkt,       \* self.sndpkt: <<>> for None, else <<frame>>
  rdt30Timer,        \* TRUE iff self.timer is a pending threading.Timer
  rdt30Retransmissions, \* self.retransmissions (saturating at MaxRetx)
  rdt30HandlerPc,    \* position of the timer thread inside _timeout_handler
  rdt30Submitted,    \* number of rdt_send calls made so far
  rdt30Returned,     \* number of rdt_send calls that returned True
  \* ---- rdt3.0 receiver (RDT30Receiver)
  rdt30RcvState,     \* self.state
  rdt30Messages,     \* self.messages: payloads delivered upward
  \* ---- channel between them
  rdt30Data,         \* frames in flight sender -> receiver, oldest first
  rdt30Ack,          \* frames in flight receiver -> sender, oldest first
  rdt30Reorder,      \* TRUE iff the channel's delays can reorder frames
  \* ---- rdt2.1 sender (RDT21Sender)
  rdt21State,        \* self.state
  rdt21Sndpkt,       \* self.sndpkt: <<>> for None, else <<frame>>
  rdt21Retransmissions, \* self.retransmissions (saturating at MaxRetx)
  rdt21Submitted,    \* number of rdt_send calls made so far
  rdt21Returned,     \* number of rdt_send calls that returned True
  \* ---- rdt2.1 receiver (RDT21Receiver)
  rdt21RcvState,     \* self.state
  rdt21Messages,     \* self.messages: payloads delivered upward
  \* ---- channel between them
  rdt21Data,         \* frames in flight sender -> receiver
  rdt21Ack,          \* frames in flight receiver -> sender
  \* ---- rdt2.0 sender (RDT20Sender)
  rdt20State,        \* self.state
  rdt20Sndpkt,       \* self.sndpkt: <<>> for None, else <<frame>>
  rdt20Retransmissions, \* self.retransmissions (saturating at MaxRetx)
  rdt20Submitted,    \* number of rdt_send calls made so far
  \* ---- rdt2.0 receiver (RDT20Receiver)
  rdt20Messages,     \* self.messages: payloads delivered upward
  \* ---- channel between them
  rdt20Data,         \* frames in flight sender -> receiver, as handed over
  rdt20Ack,          \* frames in flight receiver -> sender, as handed over
  rdt20Corrupted,    \* number of frames the channel has corrupted
  \* ---- TCP (SimpleTCPSocket), one object per endpoint
  sock,              \* endpoint -> the object's fields, named as in the source
  net,               \* endpoint -> datagrams queued towards it, oldest first
  dropped,           \* TRUE iff a data-bearing segment has been dropped
  closePc,           \* endpoint -> position of the application inside close()
  connectPc,         \* endpoint -> position of the application inside connect()
  acceptPc,          \* endpoint -> position of the application inside accept()
  recvPc,            \* endpoint -> position of the application inside recv()
  handling,          \* endpoint -> timers whose _timeout_handler is running
  \* ---- TCP: the round-trip time of one sending SimpleTCPSocket
  rttSock,           \* s: the object's fields as in sock; send_times: seq ->
                     \* the transmission self.send_times[seq] was taken at;
                     \* rtt_sample: the time stamp behind the last sample
                     \* handed to _update_rtt
  estimator,         \* estimated_rtt, dev_rtt, timeout_interval (1/Scale s)
  sampleRtt,         \* the sample_rtt of every _update_rtt call (1/Scale s)
  updates            \* number of _update_rtt calls made so far

gbnSender == <<base, nextseqnum, sndpkt, gbnTimer, gbnRetransmissions, sendPc,
               handlerPc, handlerSeq, handlerEnd, ackThread, calls, accepted>>
gbnReceiver == <<expectedseqnum, rcvSndpkt, messages>>
gbnVars == <<gbnSender, gbnReceiver, dataChan, ackChan, packetState>>

rdt30Sender == <<rdt30State, rdt30Sndpkt, rdt30Timer, rdt30Retransmissions,
                 rdt30HandlerPc, rdt30Submitted, rdt30Returned>>
rdt30Receiver == <<rdt30RcvState, rdt30Messages>>
rdt30Vars == <<rdt30Sender, rdt30Receiver, rdt30Data, rdt30Ack, rdt30Reorder>>

rdt21Sender == <<rdt21State, rdt21Sndpkt, rdt21Retransmissions,
                 rdt21Submitted, rdt21Returned>>
rdt21Receiver == <<rdt21RcvState, rdt21Messages>>
rdt21Vars == <<rdt21Sender, rdt21Receiver, rdt21Data, rdt21Ack>>

rdt20Vars == <<rdt20State, rdt20Sndpkt, rdt20Retransmissions, rdt20Submitted,
               rdt20Messages, rdt20Data, rdt20Ack, rdt20Corrupted>>

tcpCalls == <<connectPc, acceptPc, recvPc, handling>>
tcpVars == <<sock, net, dropped, closePc, tcpCalls>>

rttVars == <<rttSock, estimator, sampleRtt, updates>>

\* the variables of the other protocols
nonGBN == <<rdt30Vars, rdt21Vars, rdt20Vars, tcpVars, rttVars>>
nonRDT30 == <<gbnVars, rdt21Vars, rdt20Vars, tcpVars, rttVars>>
nonRDT21 == <<gbnVars, rdt30Vars, rdt20Vars, tcpVars, rttVars>>
nonTCP == <<gbnVars, rdt30Vars, rdt21Vars, rdt20Vars, rttVars>>
nonRDT20 == <<gbnVars, rdt30Vars, rdt21Vars, tcpVars, rttVars>>
nonRTT == <<gbnVars, rdt30Vars, rdt21Vars, rdt20Vars, tcpVars>>

vars == <<gbnVars, rdt30Vars, rdt21Vars, rdt20Vars, tcpVars, rttVars>>

(***************************************************************************)
(* Frame codec and channel.                                                *)
(***************************************************************************)
MakeFrame(t, s, d) == [type |-> t, seq |-> s, data |-> d, ok |-> TRUE]

\* UnreliableChannel._corrupt_packet flips whole bytes of the frame: the
\* checksum no longer matches (ok = FALSE), the payload is garbage, and the
\* type byte either survives or not.
CorruptKeepType(f) == [f EXCEPT !.data = Garbage, !.ok = FALSE]
CorruptType(f) == [type |-> "BAD", seq |-> 0, data |-> Garbage, ok |-> FALSE]

Inc(c) == IF c < MaxRetx THEN c + 1 ELSE c

Restrict(f, S) == [x \in S |-> f[x]]

(***************************************************************************)
(* Go-Back-N: initial state (GBNSender.__init__, GBNReceiver.__init__).    *)
(***************************************************************************)
GBNInit ==
  /\ base = 0
  /\ nextseqnum = 0
  /\ sndpkt = <<>>
  /\ gbnTimer = FALSE
  /\ gbnRetransmissions = 0
  /\ sendPc = "idle"
  /\ handlerPc = "idle"
  /\ handlerSeq = 0
  /\ handlerEnd = 0
  /\ ackThread = FALSE
  /\ calls = 0
  /\ accepted = <<>>
  /\ expectedseqnum = 0
  /\ rcvSndpkt = 0
  /\ messages = <<>>
  /\ dataChan = {}
  /\ ackChan = {}
  /\ packetState = <<>>

(***************************************************************************)
(* rdt3.0: initial state (RDT30Sender.__init__, RDT30Receiver.__init__).   *)
(* The channel object is a constructor argument: its delay range decides   *)
(* whether frames can overtake each other.                                 *)
(***************************************************************************)
RDT30Start ==
  /\ rdt30State = "WAIT_CALL_0"
  /\ rdt30Sndpkt = <<>>
  /\ rdt30Timer = FALSE
  /\ rdt30Retransmissions = 0
  /\ rdt30HandlerPc = "idle"
  /\ rdt30Submitted = 0
  /\ rdt30Returned = 0
  /\ rdt30RcvState = "WAIT_0"
  /\ rdt30Messages = <<>>
  /\ rdt30Data = <<>>
  /\ rdt30Ack = <<>>

RDT30Init == RDT30Start /\ rdt30Reorder \in BOOLEAN

RDT30Parked == RDT30Start /\ rdt30Reorder = FALSE

(***************************************************************************)
(* rdt2.1: initial state (RDT21Sender.__init__, RDT21Receiver.__init__).   *)
(***************************************************************************)
RDT21Init ==
  /\ rdt21State = "WAIT_CALL_0"
  /\ rdt21Sndpkt = <<>>
  /\ rdt21Retransmissions = 0
  /\ rdt21Submitted = 0
  /\ rdt21Returned = 0
  /\ rdt21RcvState = "WAIT_0"
  /\ rdt21Messages = <<>>
  /\ rdt21Data = <<>>
  /\ rdt21Ack = <<>>

(***************************************************************************)
(* rdt2.0: initial state (RDT20Sender.__init__, RDT20Receiver.__init__,    *)
(* src/fase1/rdt20.py lines 53-76 and 286-306).                            *)
(***************************************************************************)
RDT20Init ==
  /\ rdt20State = "WAIT_CALL"
  /\ rdt20Sndpkt = <<>>
  /\ rdt20Retransmissions = 0
  /\ rdt20Submitted = 0
  /\ rdt20Messages = <<>>
  /\ rdt20Data = <<>>
  /\ rdt20Ack = <<>>
  /\ rdt20Corrupted = 0

(***************************************************************************)
(* TCP: initial state (SimpleTCPSocket.__init__, lines 45-108).  A chunk   *)
(* of application data is the range [first, first + len) of the byte       *)
(* stream its sender was given, so every byte is known by its place in     *)
(* that stream.  recv_buffer holds every byte ever appended to it (recv,   *)
(* lines 285-320, which hands the bytes to the application, is left out).  *)
(* The RTT estimator is kept apart from this record, in estimator.         *)
(***************************************************************************)
NewSocket(isn) ==
  [state |-> "CLOSED", seq_num |-> isn, ack_num |-> 0, send_base |-> isn,
   send_buffer |-> <<>>, recv_buffer |-> <<>>,
   send_window |-> DEFAULT_RECV_WINDOW, recv_window |-> DEFAULT_RECV_WINDOW,
   timers |-> {}, unacked_segments |-> <<>>, running |-> FALSE,
   retransmissions |-> 0, bytes_sent |-> 0, bytes_received |-> 0]

TCPStart ==
  /\ net = [e \in Endpoints |-> <<>>]
  /\ dropped = FALSE
  /\ closePc = [e \in Endpoints |-> "none"]
  /\ connectPc = [e \in Endpoints |-> "none"]
  /\ acceptPc = [e \in Endpoints |-> "none"]
  /\ recvPc = [e \in Endpoints |-> "none"]
  /\ handling = [e \in Endpoints |-> {}]

TCPInit ==
  /\ \E a \in ISNs : \E b \in ISNs :
        sock = [e \in Endpoints |-> NewSocket(IF e = "A" THEN a ELSE b)]
  /\ TCPStart

TCPParked ==
  /\ sock = [e \in Endpoints |-> NewSocket(0)]
  /\ TCPStart

\* SimpleTCPSocket.__init__, lines 78-80 and 91, with seconds as Scale units
NewEstimator ==
  [estimated_rtt |-> Scale, dev_rtt |-> Scale \div 2,
   timeout_interval |-> INITIAL_TIMEOUT * Scale]

RTTParked ==
  /\ rttSock = [s |-> NewSocket(0), send_times |-> <<>>, rtt_sample |-> "none"]
  /\ estimator = NewEstimator
  /\ sampleRtt = 0
  /\ updates = 0

(***************************************************************************)
(* GBNSender.rdt_send, lines 175-223.  The caller's thread runs it while   *)
(* the ACK thread and the timer thread run: the model cuts it after        *)
(* udt_send (line 204), where the other threads can get in.                *)
(***************************************************************************)
\* line 196 with <= for <: a sender that takes one frame too many
WindowHasRoomInclusive == nextseqnum <= base + N

\* line 196
WindowHasRoom == nextseqnum < base + N

GBNSendBegin ==
  /\ sendPc = "idle"
  /\ calls < MaxCalls
  /\ calls' = calls + 1
  /\ IF WindowHasRoom
       THEN /\ sndpkt' = (nextseqnum :> (calls + 1)) @@ sndpkt
            /\ dataChan' = dataChan \cup {MakeFrame("DATA", nextseqnum, calls + 1)}
            /\ accepted' = Append(accepted, calls + 1)
            /\ sendPc' = "sent"
       ELSE \* refuse_data: nothing is sent, nothing is queued
            UNCHANGED <<sndpkt, dataChan, accepted, sendPc>>
  /\ UNCHANGED <<base, nextseqnum, gbnTimer, gbnRetransmissions, handlerPc,
                 handlerSeq, handlerEnd, ackThread>>
  /\ UNCHANGED <<gbnReceiver, ackChan, packetState>>
  /\ UNCHANGED nonGBN

\* lines 209-219: if (base == nextseqnum) start_timer; nextseqnum++;
\* _receive_acks starts the ACK thread
GBNSendEnd ==
  /\ sendPc = "sent"
  /\ gbnTimer' = IF base = nextseqnum THEN TRUE ELSE gbnTimer
  /\ nextseqnum' = nextseqnum + 1
  /\ ackThread' = TRUE
  /\ sendPc' = "idle"
  /\ UNCHANGED <<base, sndpkt, gbnRetransmissions, handlerPc, handlerSeq,
                 handlerEnd, calls, accepted>>
  /\ UNCHANGED <<gbnReceiver, dataChan, ackChan, packetState>>
  /\ UNCHANGED nonGBN

(***************************************************************************)
(* GBNSender._ack_loop, lines 262-296: one received frame.  f is the frame *)
(* the receiver sent and g what the channel hands over.                    *)
(***************************************************************************)
\* a sender that takes the ACK's number itself as the new base
AckedBaseSame(a) == a

AckedBase(a) == a + 1

GBNAckRcv(f, g) ==
  /\ ackThread
  /\ f \in ackChan
  /\ ackChan' = ackChan \ {f}
  /\ IF g.type = "ACK" /\ g.ok
       THEN /\ base' = AckedBase(g.seq)
            /\ sndpkt' = Restrict(sndpkt, {s \in DOMAIN sndpkt : ~(s < base')})
            /\ gbnTimer' = (base' # nextseqnum)
       ELSE UNCHANGED <<base, sndpkt, gbnTimer>>
  /\ UNCHANGED <<nextseqnum, gbnRetransmissions, sendPc, handlerPc, handlerSeq,
                 handlerEnd, ackThread, calls, accepted>>
  /\ UNCHANGED <<gbnReceiver, dataChan, packetState>>
  /\ UNCHANGED nonGBN

(***************************************************************************)
(* GBNSender._timeout_handler, lines 225-246, run by the timer thread.     *)
(***************************************************************************)
\* the pending timer expires: the handler starts and evaluates
\* range(self.base, self.nextseqnum)
GBNTimeoutFire ==
  /\ gbnTimer
  /\ handlerPc = "idle"
  /\ gbnTimer' = FALSE
  /\ handlerPc' = "loop"
  /\ handlerSeq' = base
  /\ handlerEnd' = nextseqnum
  /\ UNCHANGED <<base, nextseqnum, sndpkt, gbnRetransmissions, sendPc,
                 ackThread, calls, accepted>>
  /\ UNCHANGED <<gbnReceiver, dataChan, ackChan, packetState>>
  /\ UNCHANGED nonGBN

\* one iteration of the loop: if seq in self.sndpkt: udt_send, count
GBNTimeoutStep ==
  /\ handlerPc = "loop"
  /\ handlerSeq < handlerEnd
  /\ IF handlerSeq \in DOMAIN sndpkt
       THEN /\ dataChan' = dataChan \cup
                  {MakeFrame("DATA", handlerSeq, sndpkt[handlerSeq])}
            /\ gbnRetransmissions' = Inc(gbnRetransmissions)
       ELSE UNCHANGED <<dataChan, gbnRetransmissions>>
  /\ handlerSeq' = handlerSeq + 1
  /\ UNCHANGED <<base, nextseqnum, sndpkt, gbnTimer, sendPc, handlerPc,
                 handlerEnd, ackThread, calls, accepted>>
  /\ UNCHANGED <<gbnReceiver, ackChan, packetState>>
  /\ UNCHANGED nonGBN

\* a handler that returns after the loop without start_timer
GBNTimeoutReturn ==
  /\ handlerPc = "loop"
  /\ ~(handlerSeq < handlerEnd)
  /\ handlerPc' = "idle"
  /\ UNCHANGED <<base, nextseqnum, sndpkt, gbnTimer, gbnRetransmissions,
                 sendPc, handlerSeq, handlerEnd, ackThread, calls, accepted>>
  /\ UNCHANGED <<gbnReceiver, dataChan, ackChan, packetState>>
  /\ UNCHANGED nonGBN

\* after the loop: start_timer
GBNTimeoutRestart ==
  /\ handlerPc = "loop"
  /\ ~(handlerSeq < handlerEnd)
  /\ gbnTimer' = TRUE
  /\ handlerPc' = "idle"
  /\ UNCHANGED <<base, nextseqnum, sndpkt, gbnRetransmissions, sendPc,
                 handlerSeq, handlerEnd, ackThread, calls, accepted>>
  /\ UNCHANGED <<gbnReceiver, dataChan, ackChan, packetState>>
  /\ UNCHANGED nonGBN

(***************************************************************************)
(* GBNReceiver.rdt_rcv, lines 485-523: one received frame.  The receiver's *)
(* statistics (corrupted_count, out_of_order_count), which the program     *)
(* only reports, are not part of the state.                                *)
(***************************************************************************)
HasSeqNumOrLater(g, e) == g.ok /\ g.seq >= e

HasSeqNum(g, e) == g.ok /\ g.seq = e

GBNRcvFrame(f, g) ==
  /\ f \in dataChan
  /\ dataChan' = dataChan \ {f}
  /\ IF g.type # "DATA"
       THEN UNCHANGED <<gbnReceiver, ackChan>>
       ELSE IF g.ok /\ HasSeqNum(g, expectedseqnum)
         THEN /\ messages' = Append(messages, g.data)
              /\ rcvSndpkt' = expectedseqnum
              /\ ackChan' = ackChan \cup {MakeFrame("ACK", expectedseqnum, Empty)}
              /\ expectedseqnum' = expectedseqnum + 1
         ELSE /\ ackChan' = ackChan \cup {MakeFrame("ACK", rcvSndpkt, Empty)}
              /\ UNCHANGED <<expectedseqnum, rcvSndpkt, messages>>
  /\ UNCHANGED gbnSender
  /\ UNCHANGED nonGBN

GBNRcv(f, g) == GBNRcvFrame(f, g) /\ UNCHANGED packetState

(***************************************************************************)
(* UnreliableChannel.send, lines 37-49.  The channel draws the fate of a   *)
(* frame independently of everything else, so the model draws it when the  *)
(* frame leaves the channel: lost, handed over corrupted, or handed over   *)
(* as sent.                                                                *)
(***************************************************************************)
Corruptions(f) == {CorruptKeepType(f), CorruptType(f)}

GBNLoseData(f) ==
  /\ f \in dataChan
  /\ dataChan' = dataChan \ {f}
  /\ UNCHANGED <<gbnSender, gbnReceiver, ackChan, packetState>>
  /\ UNCHANGED nonGBN

GBNLoseAck(f) ==
  /\ f \in ackChan
  /\ ackChan' = ackChan \ {f}
  /\ UNCHANGED <<gbnSender, gbnReceiver, dataChan, packetState>>
  /\ UNCHANGED nonGBN

GBNNext ==
  \/ GBNSendBegin
  \/ GBNSendEnd
  \/ \E f \in ackChan : GBNAckRcv(f, f)
  \/ \E f \in ackChan : \E g \in Corruptions(f) : GBNAckRcv(f, g)
  \/ GBNTimeoutFire
  \/ GBNTimeoutStep
  \/ GBNTimeoutRestart
  \/ \E f \in dataChan : GBNRcv(f, f)
  \/ \E f \in dataChan : \E g \in Corruptions(f) : GBNRcv(f, g)
  \/ \E f \in dataChan : GBNLoseData(f)
  \/ \E f \in ackChan : GBNLoseAck(f)

\* the Go-Back-N pair runs; the other protocols' objects are not used
InitGBN ==
  GBNInit /\ RDT30Parked /\ RDT21Init /\ RDT20Init /\ TCPParked
  /\ RTTParked

SpecGBN == InitGBN /\ [][GBNNext]_vars

GBNBaseMonotonic == [][base' >= base]_vars

\* C3: the payloads delivered upward are exactly those of the frames
\* 0 .. expectedseqnum-1, in that order.
GBNInOrderDelivery ==
  /\ Len(messages) = expectedseqnum
  /\ expectedseqnum <= Len(accepted)
  /\ \A i \in 1..Len(messages) : messages[i] = accepted[i]

\* every accepted payload delivered, after retransmissions and with a
\* retransmitted copy still in flight
GBNAllDeliveredWitness ==
  /\ expectedseqnum = MaxCalls
  /\ gbnRetransmissions > 0
  /\ dataChan # {}

(***************************************************************************)
(* Go-Back-N over the channel of the loss test, GBNBoundedLossChannel      *)
(* (src/utils/simulator.py lines 77-124): only DATA frames are lost, each  *)
(* sequence number at most once and only on its first transmission; no     *)
(* frame is corrupted; every frame gets its own delay.                     *)
(***************************************************************************)
PacketStateOf(s) == IF s \in DOMAIN packetState THEN packetState[s] ELSE "new"

GBNBoundedLose(f) ==
  /\ f \in dataChan
  /\ PacketStateOf(f.seq) = "new"
  /\ dataChan' = dataChan \ {f}
  /\ packetState' = (f.seq :> "lost_once") @@ packetState
  /\ UNCHANGED <<gbnSender, gbnReceiver, ackChan>>
  /\ UNCHANGED nonGBN

GBNBoundedRcv(f) ==
  /\ GBNRcvFrame(f, f)
  /\ packetState' = (f.seq :> "delivered") @@ packetState

GBNLossNext ==
  \/ GBNSendBegin
  \/ GBNSendEnd
  \/ \E f \in ackChan : GBNAckRcv(f, f)
  \/ GBNTimeoutFire
  \/ GBNTimeoutStep
  \/ GBNTimeoutRestart
  \/ \E f \in dataChan : GBNBoundedRcv(f)
  \/ \E f \in dataChan : GBNBoundedLose(f)

\* Every thread that can take a step eventually takes it, and every frame
\* in flight is eventually handed over.
GBNFairness ==
  /\ WF_vars(GBNSendEnd)
  /\ WF_vars(GBNTimeoutFire \/ GBNTimeoutStep \/ GBNTimeoutRestart)
  /\ \A s \in 0..(MaxCalls - 1) :
       WF_vars(\E f \in ackChan : f.seq = s /\ GBNAckRcv(f, f))
  /\ \A s \in 0..(MaxCalls - 1) :
       WF_vars(\E f \in dataChan : f.seq = s /\ GBNBoundedRcv(f))

SpecGBNLoss == InitGBN /\ [][GBNLossNext]_vars /\ GBNFairness

\* C4: every payload accepted by rdt_send is eventually delivered, at its
\* place in the submission order, and the sender gets to base = nextseqnum.
GBNEventualDelivery ==
  /\ \A i \in 1..MaxCalls :
       (Len(accepted) >= i) ~> (Len(messages) >= i /\ messages[i] = accepted[i])
  /\ []<>(base = nextseqnum)

(***************************************************************************)
(* Stop-and-wait channels: a sequence of frames in flight, oldest first,   *)
(* holding at most MaxInFlight frames (a frame sent onto a full channel is *)
(* lost).  The receiving socket hands the frames over in arrival order:    *)
(* the order of sending, unless the channel's delays reorder them.         *)
(***************************************************************************)
Put(ch, f) == IF Len(ch) < MaxInFlight THEN Append(ch, f) ELSE ch

RemoveAt(ch, i) == SubSeq(ch, 1, i - 1) \o SubSeq(ch, i + 1, Len(ch))

Arrivals(ch, reorder) ==
  IF reorder THEN 1..Len(ch) ELSE IF ch = <<>> THEN {} ELSE {1}

(***************************************************************************)
(* RDT30Sender.rdt_send, lines 136-175: make_pkt, udt_send, start_timer,   *)
(* then _wait_for_ack.  The payload of the i-th call is i.                 *)
(***************************************************************************)
SeqOfCall(st) == IF st = "WAIT_CALL_0" THEN 0 ELSE 1

RDT30SendUpTo(n) ==
  /\ rdt30State \in {"WAIT_CALL_0", "WAIT_CALL_1"}
  /\ rdt30Submitted < n
  /\ rdt30Submitted' = rdt30Submitted + 1
  /\ rdt30Sndpkt' =
       <<MakeFrame("DATA", SeqOfCall(rdt30State), rdt30Submitted + 1)>>
  /\ rdt30Data' = Put(rdt30Data, rdt30Sndpkt'[1])
  /\ rdt30Timer' = TRUE
  /\ rdt30State' = IF rdt30State = "WAIT_CALL_0" THEN "WAIT_ACK_0"
                                                 ELSE "WAIT_ACK_1"
  /\ UNCHANGED <<rdt30Retransmissions, rdt30HandlerPc, rdt30Returned>>
  /\ UNCHANGED <<rdt30Receiver, rdt30Ack, rdt30Reorder>>
  /\ UNCHANGED nonRDT30

RDT30Send == RDT30SendUpTo(MaxMsgs)

(***************************************************************************)
(* RDT30Sender._wait_for_ack, lines 186-216: one frame read from the       *)
(* socket while the sender awaits an ACK.  f = rdt30Ack[i] is the frame    *)
(* the receiver sent and g what the channel hands over.                    *)
(***************************************************************************)
ExpectedSeq(st) == IF st = "WAIT_ACK_0" THEN 0 ELSE 1

\* isACK without the checksum test: a sender that trusts a damaged frame
IsACKUnchecked(g, expected_seq) == g.type = "ACK" /\ g.seq = expected_seq

IsACK(g, expected_seq) == g.ok /\ g.type = "ACK" /\ g.seq = expected_seq

RDT30RcvAck(i, g) ==
  /\ rdt30State \in {"WAIT_ACK_0", "WAIT_ACK_1"}
  /\ i \in Arrivals(rdt30Ack, rdt30Reorder)
  /\ rdt30Ack' = RemoveAt(rdt30Ack, i)
  /\ IF IsACK(g, ExpectedSeq(rdt30State))
       THEN /\ rdt30Timer' = FALSE
            /\ rdt30State' = IF rdt30State = "WAIT_ACK_0" THEN "WAIT_CALL_1"
                                                          ELSE "WAIT_CALL_0"
            /\ rdt30Sndpkt' = <<>>
            /\ rdt30Returned' = rdt30Returned + 1
       ELSE \* corrupt, or an ACK of the other sequence number: discarded
            UNCHANGED <<rdt30Timer, rdt30State, rdt30Sndpkt, rdt30Returned>>
  /\ UNCHANGED <<rdt30Retransmissions, rdt30HandlerPc, rdt30Submitted>>
  /\ UNCHANGED <<rdt30Receiver, rdt30Data, rdt30Reorder>>
  /\ UNCHANGED nonRDT30

(***************************************************************************)
(* RDT30Sender._timeout_handler, lines 91-104, run by the timer thread.    *)
(***************************************************************************)
\* the pending timer expires and its handler starts
RDT30TimeoutFire ==
  /\ rdt30Timer
  /\ rdt30HandlerPc = "idle"
  /\ rdt30Timer' = FALSE
  /\ rdt30HandlerPc' = "run"
  /\ UNCHANGED <<rdt30State, rdt30Sndpkt, rdt30Retransmissions, rdt30Submitted,
                 rdt30Returned>>
  /\ UNCHANGED <<rdt30Receiver, rdt30Data, rdt30Ack, rdt30Reorder>>
  /\ UNCHANGED nonRDT30

\* a handler that sends the frame again and leaves the timer stopped
RDT30TimeoutRunOnce ==
  /\ rdt30HandlerPc = "run"
  /\ rdt30Retransmissions' = Inc(rdt30Retransmissions)
  /\ rdt30Data' = IF rdt30Sndpkt # <<>> THEN Put(rdt30Data, rdt30Sndpkt[1])
                                        ELSE rdt30Data
  /\ rdt30HandlerPc' = "idle"
  /\ UNCHANGED <<rdt30State, rdt30Sndpkt, rdt30Timer, rdt30Submitted,
                 rdt30Returned>>
  /\ UNCHANGED <<rdt30Receiver, rdt30Ack, rdt30Reorder>>
  /\ UNCHANGED nonRDT30

\* retransmissions += 1; if self.sndpkt: udt_send(self.sndpkt); start_timer()
RDT30TimeoutRun ==
  /\ rdt30HandlerPc = "run"
  /\ rdt30Retransmissions' = Inc(rdt30Retransmissions)
  /\ rdt30Data' = IF rdt30Sndpkt # <<>> THEN Put(rdt30Data, rdt30Sndpkt[1])
                                        ELSE rdt30Data
  /\ rdt30Timer' = TRUE
  /\ rdt30HandlerPc' = "idle"
  /\ UNCHANGED <<rdt30State, rdt30Sndpkt, rdt30Submitted, rdt30Returned>>
  /\ UNCHANGED <<rdt30Receiver, rdt30Ack, rdt30Reorder>>
  /\ UNCHANGED nonRDT30

(***************************************************************************)
(* RDT30Receiver.rdt_rcv, lines 342-416: one received frame.  The          *)
(* receiver's statistics counters are not part of the state.               *)
(***************************************************************************)
RDT30ReplyAnySeq(st, g) ==
  IF ~g.ok THEN [ack |-> IF st = "WAIT_0" THEN 1 ELSE 0, deliver |-> FALSE]
           ELSE [ack |-> g.seq, deliver |-> TRUE]

\* a receiver that acknowledges every intact frame and delivers only the
\* frames numbered 0
RDT30ReplyZeroOnly(st, g) ==
  IF ~g.ok THEN [ack |-> IF st = "WAIT_0" THEN 1 ELSE 0, deliver |-> FALSE]
           ELSE [ack |-> g.seq, deliver |-> st = "WAIT_0" /\ g.seq = 0]

\* the sequence number the receiver acknowledges and whether it delivers
RDT30Reply(st, g) ==
  IF st = "WAIT_0"
    THEN IF ~g.ok THEN [ack |-> 1, deliver |-> FALSE]
         ELSE IF g.seq = 1 THEN [ack |-> 1, deliver |-> FALSE]
         ELSE [ack |-> 0, deliver |-> TRUE]
    ELSE IF ~g.ok THEN [ack |-> 0, deliver |-> FALSE]
         ELSE IF g.seq = 0 THEN [ack |-> 0, deliver |-> FALSE]
         ELSE [ack |-> 1, deliver |-> TRUE]

RDT30RcvData(i, g) ==
  /\ i \in Arrivals(rdt30Data, rdt30Reorder)
  /\ rdt30Data' = RemoveAt(rdt30Data, i)
  /\ IF g.type # "DATA"
       THEN UNCHANGED <<rdt30Receiver, rdt30Ack>>
       ELSE /\ rdt30Ack' = Put(rdt30Ack,
                 MakeFrame("ACK", RDT30Reply(rdt30RcvState, g).ack, Empty))
            /\ IF RDT30Reply(rdt30RcvState, g).deliver
                 THEN /\ rdt30Messages' = Append(rdt30Messages, g.data)
                      /\ rdt30RcvState' = IF rdt30RcvState = "WAIT_0"
                                            THEN "WAIT_1" ELSE "WAIT_0"
                 ELSE UNCHANGED rdt30Receiver
  /\ UNCHANGED <<rdt30Sender, rdt30Reorder>>
  /\ UNCHANGED nonRDT30

\* UnreliableChannel.send, lines 37-40: the frame is lost
RDT30LoseData(i) ==
  /\ i \in Arrivals(rdt30Data, rdt30Reorder)
  /\ rdt30Data' = RemoveAt(rdt30Data, i)
  /\ UNCHANGED <<rdt30Sender, rdt30Receiver, rdt30Ack, rdt30Reorder>>
  /\ UNCHANGED nonRDT30

RDT30LoseAck(i) ==
  /\ i \in Arrivals(rdt30Ack, rdt30Reorder)
  /\ rdt30Ack' = RemoveAt(rdt30Ack, i)
  /\ UNCHANGED <<rdt30Sender, rdt30Receiver, rdt30Data, rdt30Reorder>>
  /\ UNCHANGED nonRDT30

RDT30DataArrives == \E i \in 1..Len(rdt30Data) : RDT30RcvData(i, rdt30Data[i])

RDT30AckArrives == \E i \in 1..Len(rdt30Ack) : RDT30RcvAck(i, rdt30Ack[i])

RDT30Next ==
  \/ RDT30Send
  \/ RDT30AckArrives
  \/ \E i \in 1..Len(rdt30Ack) : \E g \in Corruptions(rdt30Ack[i]) :
       RDT30RcvAck(i, g)
  \/ RDT30TimeoutFire
  \/ RDT30TimeoutRun
  \/ RDT30DataArrives
  \/ \E i \in 1..Len(rdt30Data) : \E g \in Corruptions(rdt30Data[i]) :
       RDT30RcvData(i, g)
  \/ \E i \in 1..Len(rdt30Data) : RDT30LoseData(i)
  \/ \E i \in 1..Len(rdt30Ack) : RDT30LoseAck(i)

\* The application goes on calling rdt_send, the timer thread runs, and a
\* frame that is sent again and again is eventually handed over intact.
RDT30Fairness ==
  /\ WF_vars(RDT30Send)
  /\ WF_vars(RDT30TimeoutFire \/ RDT30TimeoutRun)
  /\ SF_vars(RDT30DataArrives)
  /\ SF_vars(RDT30AckArrives)

InitRDT30 ==
  GBNInit /\ RDT30Init /\ RDT21Init /\ RDT20Init /\ TCPParked
  /\ RTTParked

SpecRDT30 == InitRDT30 /\ [][RDT30Next]_vars /\ RDT30Fairness

(***************************************************************************)
(* rdt3.0 properties.                                                      *)
(***************************************************************************)
RDT30Prefix ==
  /\ Len(rdt30Messages) <= rdt30Submitted
  /\ \A i \in 1..Len(rdt30Messages) : rdt30Messages[i] = i

\* C9 as stated: over a channel that may lose, corrupt, delay and reorder
\* frames, the payloads delivered are the payloads submitted, each once and
\* in submission order.
RDT30ExactlyOnce == RDT30Prefix

\* C9, amended: over a channel that may lose, corrupt and delay frames but
\* hands them over in the order they were sent, the payloads delivered are
\* always the first payloads submitted, each once and in order, every
\* submitted payload is eventually delivered, and every rdt_send call
\* eventually returns success.
RDT30FifoDelivery ==
  /\ [](~rdt30Reorder => RDT30Prefix)
  /\ \A i \in 1..MaxMsgs :
       (~rdt30Reorder /\ rdt30Submitted >= i)
          ~> (Len(rdt30Messages) >= i /\ rdt30Returned >= i)

\* all payloads delivered in order over an in-order channel after a
\* retransmission, with a duplicate of the last frame still in flight
RDT30FifoWitness ==
  /\ ~rdt30Reorder
  /\ Len(rdt30Messages) = MaxMsgs
  /\ rdt30Returned = MaxMsgs
  /\ rdt30Retransmissions > 0
  /\ rdt30Data # <<>>

(***************************************************************************)
(* rdt2.1 (src/fase1/rdt21.py) over a channel that corrupts frames but     *)
(* loses none.  RDT21Sender.rdt_send, lines 97-130: make_pkt, udt_send,    *)
(* then _wait_for_ack_or_nak.  The payload of the i-th call is i.          *)
(***************************************************************************)
RDT21Send ==
  /\ rdt21State \in {"WAIT_CALL_0", "WAIT_CALL_1"}
  /\ rdt21Submitted < MaxSends
  /\ rdt21Submitted' = rdt21Submitted + 1
  /\ rdt21Sndpkt' =
       <<MakeFrame("DATA", SeqOfCall(rdt21State), rdt21Submitted + 1)>>
  /\ rdt21Data' = Put(rdt21Data, rdt21Sndpkt'[1])
  /\ rdt21State' = IF rdt21State = "WAIT_CALL_0" THEN "WAIT_ACK_OR_NAK_0"
                                                 ELSE "WAIT_ACK_OR_NAK_1"
  /\ UNCHANGED <<rdt21Retransmissions, rdt21Returned>>
  /\ UNCHANGED <<rdt21Receiver, rdt21Ack>>
  /\ UNCHANGED nonRDT21

(***************************************************************************)
(* RDT21Sender._wait_for_ack_or_nak, lines 143-178: one frame read from    *)
(* the socket.  f = rdt21Ack[i] is the frame the receiver sent and g what  *)
(* the channel hands over.  A valid ACK ends the wait whatever sequence    *)
(* number it carries: the test of lines 155 and 162 compares expected_seq  *)
(* with the state, both set by rdt_send, and never reads ack_seq.          *)
(***************************************************************************)
RDT21Retransmits(g) == ~g.ok \/ g.type = "NAK"

RDT21Accepts(g, st) ==
  g.ok /\ g.type = "ACK" /\ st \in {"WAIT_ACK_OR_NAK_0", "WAIT_ACK_OR_NAK_1"}

RDT21RcvReply(i, g) ==
  /\ rdt21State \in {"WAIT_ACK_OR_NAK_0", "WAIT_ACK_OR_NAK_1"}
  /\ i \in 1..Len(rdt21Ack)
  /\ IF RDT21Retransmits(g)
       THEN /\ rdt21Retransmissions' = Inc(rdt21Retransmissions)
            /\ rdt21Data' = Put(rdt21Data, rdt21Sndpkt[1])
            /\ UNCHANGED <<rdt21State, rdt21Sndpkt, rdt21Returned>>
       ELSE IF RDT21Accepts(g, rdt21State)
         THEN /\ rdt21State' = IF rdt21State = "WAIT_ACK_OR_NAK_0"
                                 THEN "WAIT_CALL_1" ELSE "WAIT_CALL_0"
              /\ rdt21Sndpkt' = <<>>
              /\ rdt21Returned' = rdt21Returned + 1
              /\ UNCHANGED <<rdt21Retransmissions, rdt21Data>>
         ELSE UNCHANGED <<rdt21State, rdt21Sndpkt, rdt21Returned,
                          rdt21Retransmissions, rdt21Data>>
  /\ rdt21Ack' = RemoveAt(rdt21Ack, i)
  /\ UNCHANGED <<rdt21Submitted, rdt21Receiver>>
  /\ UNCHANGED nonRDT21

\* lines 174-178: socket.timeout after 5 s without a frame.  The channel
\* holds a frame for 0.5 s at most, so by then no frame is in flight.
RDT21SocketTimeout ==
  /\ rdt21State \in {"WAIT_ACK_OR_NAK_0", "WAIT_ACK_OR_NAK_1"}
  /\ rdt21Data = <<>>
  /\ rdt21Ack = <<>>
  /\ rdt21Retransmissions' = Inc(rdt21Retransmissions)
  /\ rdt21Data' = Put(rdt21Data, rdt21Sndpkt[1])
  /\ UNCHANGED <<rdt21State, rdt21Sndpkt, rdt21Submitted, rdt21Returned>>
  /\ UNCHANGED <<rdt21Receiver, rdt21Ack>>
  /\ UNCHANGED nonRDT21

(***************************************************************************)
(* RDT21Receiver.rdt_rcv, lines 298-378: one received frame.  The          *)
(* receiver's statistics counters are not part of the state.               *)
(***************************************************************************)
RDT21ReplyAnySeq(st, g) ==
  IF ~g.ok THEN [type |-> "NAK", seq |-> 0, deliver |-> FALSE]
           ELSE [type |-> "ACK", seq |-> g.seq, deliver |-> TRUE]

\* the reply the receiver sends and whether it delivers the payload
RDT21Reply(st, g) ==
  IF ~g.ok THEN [type |-> "NAK", seq |-> 0, deliver |-> FALSE]
  ELSE IF st = "WAIT_0"
    THEN IF g.seq = 1 THEN [type |-> "ACK", seq |-> 1, deliver |-> FALSE]
         ELSE [type |-> "ACK", seq |-> 0, deliver |-> TRUE]
    ELSE IF g.seq = 0 THEN [type |-> "ACK", seq |-> 0, deliver |-> FALSE]
         ELSE [type |-> "ACK", seq |-> 1, deliver |-> TRUE]

RDT21RcvData(i, g) ==
  /\ i \in 1..Len(rdt21Data)
  /\ rdt21Data' = RemoveAt(rdt21Data, i)
  /\ IF g.type # "DATA"
       THEN UNCHANGED <<rdt21Receiver, rdt21Ack>>
       ELSE /\ rdt21Ack' = Put(rdt21Ack,
                 MakeFrame(RDT21Reply(rdt21RcvState, g).type,
                           RDT21Reply(rdt21RcvState, g).seq, Empty))
            /\ IF RDT21Reply(rdt21RcvState, g).deliver
                 THEN /\ rdt21Messages' = Append(rdt21Messages, g.data)
                      /\ rdt21RcvState' = IF rdt21RcvState = "WAIT_0"
                                            THEN "WAIT_1" ELSE "WAIT_0"
                 ELSE UNCHANGED rdt21Receiver
  /\ UNCHANGED rdt21Sender
  /\ UNCHANGED nonRDT21

RDT21Next ==
  \/ RDT21Send
  \/ \E i \in 1..Len(rdt21Ack) : RDT21RcvReply(i, rdt21Ack[i])
  \/ \E i \in 1..Len(rdt21Ack) : \E g \in Corruptions(rdt21Ack[i]) :
       RDT21RcvReply(i, g)
  \/ RDT21SocketTimeout
  \/ \E i \in 1..Len(rdt21Data) : RDT21RcvData(i, rdt21Data[i])
  \/ \E i \in 1..Len(rdt21Data) : \E g \in Corruptions(rdt21Data[i]) :
       RDT21RcvData(i, g)

InitRDT21 ==
  GBNInit /\ RDT30Parked /\ RDT21Init /\ RDT20Init /\ TCPParked
  /\ RTTParked

SpecRDT21 == InitRDT21 /\ [][RDT21Next]_vars

(***************************************************************************)
(* rdt2.1 properties.                                                      *)
(***************************************************************************)
\* C10: over a channel that may corrupt DATA, ACK and NAK frames, the
\* payloads delivered are always the first payloads submitted, in order:
\* none is delivered twice, none is skipped.
RDT21DeliveredPrefix ==
  /\ Len(rdt21Messages) <= rdt21Submitted
  /\ \A i \in 1..Len(rdt21Messages) : rdt21Messages[i] = i

\* every payload delivered and acknowledged, after retransmissions
RDT21AllDeliveredWitness ==
  /\ Len(rdt21Messages) = MaxSends
  /\ rdt21Returned = MaxSends
  /\ rdt21Retransmissions > 0

(***************************************************************************)
(* The simplified TCP socket (src/fase3/tcp_socket.py).  Two endpoints     *)
(* exchange segments as UDP datagrams: net[e] is the queue of datagrams    *)
(* on their way to e and in e's socket buffer, oldest first, holding at    *)
(* most MaxQueue datagrams.  A data-bearing segment sent onto a full       *)
(* queue is dropped; an endpoint about to send a segment without data      *)
(* onto a full queue waits for room.                                       *)
(***************************************************************************)
Peer(e) == IF e = "A" THEN "B" ELSE "A"

NoData == [first |-> 0, len |-> 0]

\* TCPSegment.create_segment, as the callers use it (ports left out)
Segment(fl, seq, ack, win, d) ==
  [flags |-> fl, seq_num |-> seq, ack_num |-> ack, window_size |-> win,
   data |-> d]

HasData(seg) == seg.data.len > 0

Min(a, b) == IF a < b THEN a ELSE b

\* the bytes of a chunk, by their place in the sender's stream
Bytes(d) == [i \in 1..d.len |-> d.first + i - 1]

\* what a handler leaves behind: the object's fields and the segments sent
Result(s, o) == [s |-> s, out |-> o]

\* F(v), with v computed once however often F uses it
Bind(v, F(_)) == CHOOSE y \in {F(x) : x \in {v}} : TRUE

(***************************************************************************)
(* SimpleTCPSocket._send_data, lines 242-283.                              *)
(***************************************************************************)
RECURSIVE SendLoop(_, _, _)
SendLoop(s, available_window, out) ==
  IF s.send_buffer = <<>> \/ ~(available_window > 0)
    THEN Result(s, out)
    ELSE LET data == Head(s.send_buffer)
             segment_size ==
               Min(data.len, Min(MAX_SEGMENT_SIZE, available_window))
             segment_data == [first |-> data.first, len |-> segment_size]
             rest == IF data.len > segment_size
                       THEN <<[first |-> data.first + segment_size,
                               len |-> data.len - segment_size]>>
                            \o Tail(s.send_buffer)
                       ELSE Tail(s.send_buffer)
             s2 == [s EXCEPT
                      !.send_buffer = rest,
                      !.unacked_segments = (s.seq_num :> segment_data) @@ @,
                      !.timers = @ \cup {s.seq_num},
                      !.seq_num = @ + segment_size]
             Rest(x) ==
               SendLoop(x, available_window - segment_size,
                        Append(out, Segment({"ACK"}, s.seq_num, s.ack_num,
                                            s.recv_window, segment_data)))
         IN Bind(s2, Rest)

SendData(s) ==
  LET Loop(x) == SendLoop(x, x.send_window - (x.seq_num - x.send_base), <<>>)
  IN Bind(s, Loop)

(***************************************************************************)
(* SimpleTCPSocket._handle_syn, lines 368-410.  isn is the value that      *)
(* random.randint draws at line 375.                                       *)
(***************************************************************************)
\* a passive side that notes the SYN and answers nothing
HandleSynSilent(s, seg, isn) ==
  IF s.state = "LISTEN"
    THEN Result([s EXCEPT !.ack_num = seg.seq_num + 1,
                          !.seq_num = isn,
                          !.state = "SYN_RCVD"], <<>>)
    ELSE Result(s, <<>>)

HandleSyn(s, seg, isn) ==
  IF s.state = "LISTEN"
    THEN Result([s EXCEPT !.ack_num = seg.seq_num + 1,
                          !.seq_num = isn,
                          !.state = "SYN_RCVD"],
                <<Segment({"SYN", "ACK"}, isn, seg.seq_num + 1,
                          s.recv_window, NoData)>>)
  ELSE IF s.state = "SYN_SENT"
    THEN Result([s EXCEPT !.ack_num = seg.seq_num + 1,
                          !.seq_num = @ + 1,
                          !.state = "ESTABLISHED"],
                <<Segment({"ACK"}, s.seq_num + 1, seg.seq_num + 1,
                          s.recv_window, NoData)>>)
  ELSE Result(s, <<>>)

(***************************************************************************)
(* SimpleTCPSocket._handle_ack, lines 412-464.                             *)
(***************************************************************************)
AckAdvances(s, ack_num) == ack_num > s.send_base

HandleAck(s, ack_num) ==
  IF s.state = "SYN_RCVD" /\ ack_num >= s.seq_num + 1
    THEN Result([s EXCEPT !.state = "ESTABLISHED",
                          !.seq_num = ack_num,
                          !.send_base = ack_num], <<>>)
  ELSE IF AckAdvances(s, ack_num)
    THEN SendData([s EXCEPT
           !.send_base = ack_num,
           !.timers = {t \in @ : ~(t < ack_num)},
           !.unacked_segments =
              Restrict(@, {q \in DOMAIN @ : ~(q + @[q].len <= ack_num)})])
  ELSE Result(s, <<>>)

(***************************************************************************)
(* SimpleTCPSocket._handle_data, lines 466-499.                            *)
(***************************************************************************)
InOrder(s, seq_num) == seq_num = s.ack_num

HandleData(s, seq_num, data) ==
  IF InOrder(s, seq_num)
    THEN Result([s EXCEPT !.recv_buffer = @ \o Bytes(data),
                          !.ack_num = @ + data.len],
                <<Segment({"ACK"}, s.seq_num, s.ack_num + data.len,
                          s.recv_window, NoData)>>)
    ELSE Result(s, <<Segment({"ACK"}, s.seq_num, s.ack_num,
                             s.recv_window, NoData)>>)

(***************************************************************************)
(* SimpleTCPSocket._handle_fin, lines 501-520.                             *)
(***************************************************************************)
\* a passive closer that notes the FIN and answers nothing
HandleFinSilent(s, seg) ==
  IF s.state = "ESTABLISHED"
    THEN Result([s EXCEPT !.ack_num = seg.seq_num + 1,
                          !.state = "CLOSE_WAIT"], <<>>)
    ELSE Result(s, <<>>)

HandleFin(s, seg) ==
  IF s.state = "ESTABLISHED"
    THEN Result([s EXCEPT !.ack_num = seg.seq_num + 1,
                          !.state = "CLOSE_WAIT"],
                <<Segment({"ACK"}, s.seq_num, seg.seq_num + 1,
                          s.recv_window, NoData)>>)
    ELSE Result(s, <<>>)

(***************************************************************************)
(* SimpleTCPSocket._process_segment, lines 345-366.                        *)
(***************************************************************************)
ProcessSegment(s, seg, isn) ==
  LET First(s0) ==
        IF "SYN" \in seg.flags THEN HandleSyn(s0, seg, isn)
        ELSE IF "FIN" \in seg.flags THEN HandleFin(s0, seg)
        ELSE IF "ACK" \in seg.flags THEN HandleAck(s0, seg.ack_num)
        ELSE Result(s0, <<>>)
      Second(r1) ==
        LET Join(r2) == Result(r2.s, r1.out \o r2.out)
        IN Bind(IF HasData(seg) /\ "ACK" \in seg.flags
                  THEN Bind(r1.s, LAMBDA x : HandleData(x, seg.seq_num, seg.data))
                  ELSE Result(r1.s, <<>>),
                Join)
  IN Bind(Bind([s EXCEPT !.send_window = seg.window_size], First), Second)

(***************************************************************************)
(* SimpleTCPSocket._timeout_handler, lines 601-633, for the timer of the   *)
(* segment with sequence number seq_num.                                   *)
(***************************************************************************)
PendingAfter(s, seq_num) == {q \in DOMAIN s.unacked_segments : q > seq_num}

PendingAll(s, seq_num) == DOMAIN s.unacked_segments

Pending(s, seq_num) == {q \in DOMAIN s.unacked_segments : q >= seq_num}

RECURSIVE Sorted(_)
Sorted(S) ==
  IF S = {} THEN <<>>
  ELSE LET q == CHOOSE x \in S : \A y \in S : x <= y
       IN <<q>> \o Sorted(S \ {q})

TimeoutHandler(s, seq_num) ==
  LET s1 == [s EXCEPT !.retransmissions = Inc(@),
                      !.timers = @ \ {seq_num}]
      Resend(order) ==
        Result([s1 EXCEPT !.timers = @ \cup Pending(s, seq_num)],
               [i \in 1..Len(order) |->
                  Segment({"ACK"}, order[i], s.ack_num, s.recv_window,
                          s.unacked_segments[order[i]])])
  IN Bind(Sorted(Pending(s, seq_num)), Resend)

(***************************************************************************)
(* _udp_send / udp_socket.sendto: the segments of out join the queue       *)
(* towards an endpoint, unless its socket is closed.                       *)
(***************************************************************************)
RECURSIVE Enqueue(_, _)
Enqueue(q, out) ==
  IF out = <<>> THEN [q |-> q, dropped |-> FALSE, room |-> TRUE]
  ELSE IF Len(q) < MaxQueue
    THEN Bind(Append(q, Head(out)), LAMBDA x : Enqueue(x, Tail(out)))
  ELSE IF HasData(Head(out))
    THEN [Enqueue(q, Tail(out)) EXCEPT !.dropped = TRUE]
    ELSE [q |-> q, dropped |-> FALSE, room |-> FALSE]

Sent(to, out) ==
  IF closePc[to] = "done" THEN [q |-> <<>>, dropped |-> FALSE, room |-> TRUE]
                          ELSE Enqueue(net[to], out)

\* endpoint e ends a handler with fields s, having sent out to its peer and
\* having taken `taken` datagrams from its own queue
Effect(e, r, taken) ==
  \E res \in {r} : \E sent \in {Sent(Peer(e), res.out)} :
    /\ sent.room
    /\ sock' = [sock EXCEPT ![e] = res.s]
    /\ net' = [net EXCEPT ![Peer(e)] = sent.q,
                          ![e] = SubSeq(@, taken + 1, Len(@))]
    /\ dropped' = (dropped \/ sent.dropped)

(***************************************************************************)
(* The operations of the application and of the object's threads.          *)
(***************************************************************************)
\* connect, lines 124-168, up to the wait for the handshake
TCPConnect(e) ==
  /\ sock[e].state = "CLOSED"
  /\ ~sock[e].running
  /\ closePc[e] = "none"
  /\ connectPc[e] = "none"
  /\ Effect(e, Result([sock[e] EXCEPT !.state = "SYN_SENT", !.running = TRUE],
                      <<Segment({"SYN"}, sock[e].seq_num, 0,
                                sock[e].recv_window, NoData)>>), 0)
  /\ connectPc' = [connectPc EXCEPT ![e] = "waiting"]
  /\ UNCHANGED <<closePc, acceptPc, recvPc, handling>>
  /\ UNCHANGED nonTCP

\* listen, lines 170-186
TCPListen(e) ==
  /\ sock[e].state = "CLOSED"
  /\ ~sock[e].running
  /\ closePc[e] = "none"
  /\ Effect(e, Result([sock[e] EXCEPT !.state = "LISTEN", !.running = TRUE],
                      <<>>), 0)
  /\ UNCHANGED <<closePc, tcpCalls>>
  /\ UNCHANGED nonTCP

\* send, lines 213-240, of a chunk of n bytes
TCPSend(e, n) ==
  /\ sock[e].state = "ESTABLISHED"
  /\ closePc[e] = "none"
  /\ sock[e].bytes_sent + n <= MaxBytes
  /\ Effect(e, SendData([sock[e] EXCEPT
                 !.send_buffer =
                    Append(@, [first |-> sock[e].bytes_sent + 1, len |-> n]),
                 !.bytes_sent = @ + n]), 0)
  /\ UNCHANGED <<closePc, tcpCalls>>
  /\ UNCHANGED nonTCP

\* _receive_loop, lines 322-343: one datagram
TCPProcess(e, isn) ==
  /\ sock[e].running
  /\ net[e] # <<>>
  /\ Effect(e, ProcessSegment(sock[e], Head(net[e]), isn), 1)
  /\ UNCHANGED <<closePc, tcpCalls>>
  /\ UNCHANGED nonTCP

\* the timer of the segment with sequence number t expires
TCPTimeout(e, t) ==
  /\ t \in sock[e].timers
  /\ Effect(e, TimeoutHandler(sock[e], t), 0)
  /\ UNCHANGED <<closePc, tcpCalls>>
  /\ UNCHANGED nonTCP

\* the send interceptor of the tests, or UDP, drops a data-bearing segment
TCPDrop(e) ==
  /\ sock[e].running
  /\ net[e] # <<>>
  /\ HasData(Head(net[e]))
  /\ \E isn \in ISNs :
       Sent(Peer(e), ProcessSegment(sock[e], Head(net[e]), isn).out).room
  /\ net' = [net EXCEPT ![e] = Tail(@)]
  /\ dropped' = TRUE
  /\ UNCHANGED <<sock, closePc, tcpCalls>>
  /\ UNCHANGED nonTCP

\* UDP loses a segment without data
TCPLose(e) ==
  /\ net[e] # <<>>
  /\ ~HasData(Head(net[e]))
  /\ net' = [net EXCEPT ![e] = Tail(@)]
  /\ UNCHANGED <<sock, dropped, closePc, tcpCalls>>
  /\ UNCHANGED nonTCP

\* close, lines 522-573: the FIN is sent and the wait for the peer begins
CloseBegin(s) ==
  IF s.state = "ESTABLISHED"
    THEN Result([s EXCEPT !.state = "FIN_WAIT_1"],
                <<Segment({"FIN", "ACK"}, s.seq_num, s.ack_num,
                          s.recv_window, NoData)>>)
  ELSE IF s.state = "CLOSE_WAIT"
    THEN Result([s EXCEPT !.state = "LAST_ACK"],
                <<Segment({"FIN", "ACK"}, s.seq_num, s.ack_num,
                          s.recv_window, NoData)>>)
  ELSE Result(s, <<>>)

TCPCloseBegin(e) ==
  /\ closePc[e] = "none"
  /\ sock[e].state # "CLOSED"
  /\ Effect(e, CloseBegin(sock[e]), 0)
  /\ closePc' = [closePc EXCEPT ![e] = "waiting"]
  /\ UNCHANGED tcpCalls
  /\ UNCHANGED nonTCP

\* close, lines 575-589: the waits are over; the receive thread stops, the
\* timers are cancelled and the socket is closed
TCPCloseEnd(e) ==
  /\ closePc[e] = "waiting"
  /\ sock' = [sock EXCEPT ![e] = [@ EXCEPT !.running = FALSE,
                                          !.state = "CLOSED",
                                          !.timers = {}]]
  /\ net' = [net EXCEPT ![e] = <<>>]
  /\ closePc' = [closePc EXCEPT ![e] = "done"]
  /\ UNCHANGED <<dropped, tcpCalls>>
  /\ UNCHANGED nonTCP

(***************************************************************************)
(* connect, lines 157-166: the wait for the handshake.  The waits of the   *)
(* application are far longer (5 s and 10 s) than a datagram takes, so one *)
(* expires only when no running endpoint has a datagram left to handle.    *)
(***************************************************************************)
Quiet == \A e \in Endpoints : ~sock[e].running \/ net[e] = <<>>

\* line 161 without its effect: a bug that forgets to give up the attempt
ConnectExpiredKeepsState(s) == s

\* line 161
ConnectExpired(s) == [s EXCEPT !.state = "CLOSED"]

\* lines 159-160: the loop finds SYN_SENT and the 10 s over
TCPConnectExpire(e) ==
  /\ connectPc[e] = "waiting"
  /\ sock[e].state = "SYN_SENT"
  /\ Quiet
  /\ connectPc' = [connectPc EXCEPT ![e] = "expiring"]
  /\ UNCHANGED <<sock, net, dropped, closePc, acceptPc, recvPc, handling>>
  /\ UNCHANGED nonTCP

\* lines 161-162: the state is overwritten, whatever it has become
TCPConnectTimeout(e) ==
  /\ connectPc[e] = "expiring"
  /\ sock' = [sock EXCEPT ![e] = ConnectExpired(@)]
  /\ connectPc' = [connectPc EXCEPT ![e] = "raised"]
  /\ UNCHANGED <<net, dropped, closePc, acceptPc, recvPc, handling>>
  /\ UNCHANGED nonTCP

\* lines 159 and 165-168: the loop is left; ESTABLISHED is success
TCPConnectReturn(e) ==
  /\ connectPc[e] = "waiting"
  /\ sock[e].state # "SYN_SENT"
  /\ connectPc' = [connectPc EXCEPT ![e] =
                     IF sock[e].state = "ESTABLISHED" THEN "returned"
                                                      ELSE "raised"]
  /\ UNCHANGED <<sock, net, dropped, closePc, acceptPc, recvPc, handling>>
  /\ UNCHANGED nonTCP

TCPConnectWait(e) ==
  TCPConnectExpire(e) \/ TCPConnectTimeout(e) \/ TCPConnectReturn(e)

TCPNext ==
  \/ TCPConnect("A")
  \/ TCPConnectWait("A")
  \/ TCPListen("B")
  \/ \E n \in 1..MAX_SEGMENT_SIZE : TCPSend("A", n)
  \/ \E e \in Endpoints : \E isn \in ISNs : TCPProcess(e, isn)
  \/ \E t \in sock["A"].timers : TCPTimeout("A", t)
  \/ \E e \in Endpoints : TCPDrop(e)
  \/ \E e \in Endpoints : TCPLose(e)
  \/ TCPCloseBegin("A")
  \/ TCPCloseEnd("A")

InitTCP ==
  GBNInit /\ RDT30Parked /\ RDT21Init /\ RDT20Init /\ TCPInit
  /\ RTTParked

SpecTCP == InitTCP /\ [][TCPNext]_vars

(***************************************************************************)
(* TCP properties.                                                         *)
(***************************************************************************)
\* C5: the bytes appended to an endpoint's receive buffer are always a
\* contiguous prefix of the byte stream its peer was given to send.
TCPContiguousPrefix ==
  \A e \in Endpoints :
    /\ Len(sock[e].recv_buffer) <= sock[Peer(e)].bytes_sent
    /\ \A i \in 1..Len(sock[e].recv_buffer) : sock[e].recv_buffer[i] = i

\* C6: send_base never decreases, in any step of an endpoint's life.
TCPSendBaseMonotonic ==
  [][\A e \in Endpoints : sock'[e].send_base >= sock[e].send_base]_vars

\* C7: in every reachable state the bytes outstanding, seq_num - send_base,
\* are at most the window last advertised by the peer, send_window.
TCPWindowRespected ==
  \A e \in Endpoints :
    sock[e].seq_num - sock[e].send_base <= sock[e].send_window

(***************************************************************************)
(* Data transfer between two endpoints as in test_retransmission           *)
(* (src/testes/test_fase3.py lines 133-200): the sender's interceptor      *)
(* drops data-bearing segments, every other segment arrives, connect does  *)
(* not give up and neither side closes.                                    *)
(***************************************************************************)
TCPDataNext ==
  \/ TCPConnect("A")
  \/ TCPListen("B")
  \/ \E n \in 1..MAX_SEGMENT_SIZE : TCPSend("A", n)
  \/ \E e \in Endpoints : \E isn \in ISNs : TCPProcess(e, isn)
  \/ \E t \in sock["A"].timers : TCPTimeout("A", t)
  \/ TCPDrop("B")

\* the oldest retransmission timer of endpoint e expires
TCPOldestTimeout(e) ==
  \E t \in sock[e].timers :
    /\ \A u \in sock[e].timers : t <= u
    /\ TCPTimeout(e, t)

\* endpoint e handles the data segment its receive buffer is waiting for
TCPDeliver(e) ==
  /\ net[e] # <<>>
  /\ HasData(Head(net[e]))
  /\ Head(net[e]).seq_num = sock[e].ack_num
  /\ \E isn \in ISNs : TCPProcess(e, isn)

\* The receive threads run, a pending timer expires, and a segment that is
\* sent again and again is eventually not dropped.  The timer's condition
\* is a strong one because an expiry that finds the bounded queue full and
\* the saturated counter at its cap leaves the state as it was.
TCPFairness ==
  /\ WF_vars(\E isn \in ISNs : TCPProcess("A", isn))
  /\ WF_vars(\E isn \in ISNs : TCPProcess("B", isn))
  /\ SF_vars(TCPOldestTimeout("A"))
  /\ SF_vars(TCPDeliver("B"))

SpecTCPData == InitTCP /\ [][TCPDataNext]_vars /\ TCPFairness

\* all bytes passed to send() so far are in the peer's receive buffer
TCPAllDelivered == Len(sock["B"].recv_buffer) = sock["A"].bytes_sent

\* C8: with data-bearing segments dropped, the peer's receive buffer always
\* holds the first bytes of the stream, each once and in order, eventually
\* it holds every byte passed to send(), and the sender's retransmission
\* counter is positive when the transfer is complete and a data segment was
\* dropped.
TCPReliableTransfer ==
  /\ []TCPContiguousPrefix
  /\ <>[]TCPAllDelivered
  /\ []((dropped /\ TCPAllDelivered) => sock["A"].retransmissions > 0)

\* the whole stream received although a data segment was dropped
TCPRecoveredWitness ==
  /\ dropped
  /\ sock["A"].bytes_sent = MaxBytes
  /\ Len(sock["B"].recv_buffer) = MaxBytes
  /\ sock["A"].retransmissions > 0

(***************************************************************************)
(* accept, lines 188-211.                                                  *)
(***************************************************************************)
\* the call begins: the loop of lines 197-198 is entered
TCPAcceptCall(e) ==
  /\ acceptPc[e] = "none"
  /\ closePc[e] = "none"
  /\ acceptPc' = [acceptPc EXCEPT ![e] = "listen"]
  /\ UNCHANGED <<sock, net, dropped, closePc, connectPc, recvPc, handling>>
  /\ UNCHANGED nonTCP

\* lines 197-200 and 207-211: the loop `while self.state == LISTEN` is left,
\* which only a change of state brings about
TCPAcceptLeaveListen(e) ==
  /\ acceptPc[e] = "listen"
  /\ sock[e].state # "LISTEN"
  /\ acceptPc' = [acceptPc EXCEPT ![e] =
                    IF sock[e].state = "SYN_RCVD" THEN "syn_rcvd"
                    ELSE IF sock[e].state = "ESTABLISHED" THEN "returned"
                    ELSE "raised"]
  /\ UNCHANGED <<sock, net, dropped, closePc, connectPc, recvPc, handling>>
  /\ UNCHANGED nonTCP

\* lines 203-205: 10 s in SYN_RCVD are over
TCPAcceptTimeout(e) ==
  /\ acceptPc[e] = "syn_rcvd"
  /\ sock[e].state = "SYN_RCVD"
  /\ Quiet
  /\ acceptPc' = [acceptPc EXCEPT ![e] = "raised"]
  /\ UNCHANGED <<sock, net, dropped, closePc, connectPc, recvPc, handling>>
  /\ UNCHANGED nonTCP

\* lines 203 and 207-211: the second loop is left
TCPAcceptLeaveSynRcvd(e) ==
  /\ acceptPc[e] = "syn_rcvd"
  /\ sock[e].state # "SYN_RCVD"
  /\ acceptPc' = [acceptPc EXCEPT ![e] =
                    IF sock[e].state = "ESTABLISHED" THEN "returned"
                                                     ELSE "raised"]
  /\ UNCHANGED <<sock, net, dropped, closePc, connectPc, recvPc, handling>>
  /\ UNCHANGED nonTCP

TCPAcceptWait(e) ==
  TCPAcceptLeaveListen(e) \/ TCPAcceptTimeout(e) \/ TCPAcceptLeaveSynRcvd(e)

(***************************************************************************)
(* recv, lines 285-320.  recv_buffer of the model keeps every byte ever    *)
(* appended; the bytes recv has taken are its first bytes_received ones.   *)
(***************************************************************************)
Unread(s) == Len(s.recv_buffer) - s.bytes_received

\* lines 295-298: the call begins; outside ESTABLISHED and CLOSE_WAIT it
\* returns b'' at once
TCPRecvCall(e) ==
  /\ recvPc[e] # "waiting"
  /\ closePc[e] = "none"
  /\ recvPc' = [recvPc EXCEPT ![e] =
                  IF sock[e].state \in {"ESTABLISHED", "CLOSE_WAIT"}
                    THEN "waiting" ELSE "empty"]
  /\ UNCHANGED <<sock, net, dropped, closePc, connectPc, acceptPc, handling>>
  /\ UNCHANGED nonTCP

\* lines 300-316: at most buffer_size bytes are taken from the buffer
TCPRecvData(e, buffer_size) ==
  /\ recvPc[e] = "waiting"
  /\ Unread(sock[e]) > 0
  /\ sock' = [sock EXCEPT ![e].bytes_received =
                @ + Min(buffer_size, Unread(sock[e]))]
  /\ recvPc' = [recvPc EXCEPT ![e] = "data"]
  /\ UNCHANGED <<net, dropped, closePc, connectPc, acceptPc, handling>>
  /\ UNCHANGED nonTCP

\* lines 318-319: 5 s went by with the buffer empty
TCPRecvTimeout(e) ==
  /\ recvPc[e] = "waiting"
  /\ Unread(sock[e]) = 0
  /\ Quiet
  /\ recvPc' = [recvPc EXCEPT ![e] = "empty"]
  /\ UNCHANGED <<sock, net, dropped, closePc, connectPc, acceptPc, handling>>
  /\ UNCHANGED nonTCP

TCPRecvWait(e) ==
  \/ \E buffer_size \in 1..MAX_SEGMENT_SIZE : TCPRecvData(e, buffer_size)
  \/ TCPRecvTimeout(e)

(***************************************************************************)
(* Opening a connection as in test_connection_establishment                *)
(* (src/testes/test_fase3.py lines 16-44): a client that connects, a       *)
(* server that may listen, accept and receive, and a network that loses    *)
(* nothing, so that no retransmission timer expires.  The client sends     *)
(* chunks of one full segment.                                             *)
(***************************************************************************)
TCPOpenNext ==
  \/ TCPConnect("A")
  \/ TCPConnectWait("A")
  \/ TCPListen("B")
  \/ TCPAcceptCall("B")
  \/ TCPAcceptWait("B")
  \/ TCPRecvCall("B")
  \/ TCPRecvWait("B")
  \/ TCPSend("A", MAX_SEGMENT_SIZE)
  \/ \E e \in Endpoints : \E isn \in ISNs : TCPProcess(e, isn)

\* The receive threads handle what arrives and the application's threads
\* go on inside connect, accept and recv; whether and when the application
\* makes a call is left open.
TCPOpenFairness ==
  /\ WF_vars(\E isn \in ISNs : TCPProcess("A", isn))
  /\ WF_vars(\E isn \in ISNs : TCPProcess("B", isn))
  /\ WF_vars(TCPConnectWait("A"))
  /\ WF_vars(TCPAcceptWait("B"))
  /\ WF_vars(TCPRecvWait("B"))

SpecTCPOpen == InitTCP /\ [][TCPOpenNext]_vars /\ TCPOpenFairness

(***************************************************************************)
(* The three-way handshake.                                                *)
(***************************************************************************)
\* the client has sent its SYN to a server that listens
HandshakeStart ==
  /\ sock["B"].state = "LISTEN"
  /\ sock["A"].state = "SYN_SENT"
  /\ connectPc["A"] = "waiting"

HandshakeDone ==
  /\ sock["A"].state = "ESTABLISHED"
  /\ sock["B"].state = "ESTABLISHED"
  /\ connectPc["A"] = "returned"

\* the segment endpoint e handles in this step
Handled(e) == Head(net[e])

\* in this step one segment is sent to endpoint e: flags fl, ack_num ack
SentTo(e, fl, ack) ==
  /\ Len(net'[e]) = Len(net[e]) + 1
  /\ net'[e][Len(net'[e])].flags = fl
  /\ net'[e][Len(net'[e])].ack_num = ack

\* the changes of state of the passive side
PassiveStep(e) ==
  \/ sock[e].state = "CLOSED" /\ sock'[e].state = "LISTEN"
  \/ /\ sock[e].state = "LISTEN" /\ sock'[e].state = "SYN_RCVD"
     /\ "SYN" \in Handled(e).flags
     /\ SentTo(Peer(e), {"SYN", "ACK"}, Handled(e).seq_num + 1)
  \/ /\ sock[e].state = "SYN_RCVD" /\ sock'[e].state = "ESTABLISHED"
     /\ Handled(e).flags = {"ACK"}
     /\ Handled(e).ack_num = sock[e].seq_num + 1

\* the changes of state of the active side; giving up is connect's expiry
ActiveStep(e) ==
  \/ /\ sock[e].state = "CLOSED" /\ sock'[e].state = "SYN_SENT"
     /\ SentTo(Peer(e), {"SYN"}, 0)
  \/ /\ sock[e].state = "SYN_SENT" /\ sock'[e].state = "ESTABLISHED"
     /\ Handled(e).flags = {"SYN", "ACK"}
     /\ SentTo(Peer(e), {"ACK"}, Handled(e).seq_num + 1)
  \/ connectPc[e] = "expiring" /\ sock'[e].state = "CLOSED"

\* C11: with the passive endpoint in LISTEN and no segment lost, connect()
\* returns and accept() returns with both endpoints in ESTABLISHED; the
\* passive side goes LISTEN -> SYN_RCVD on a SYN, replying SYN+ACK, and
\* SYN_RCVD -> ESTABLISHED on the matching ACK; the active side goes
\* CLOSED -> SYN_SENT and SYN_SENT -> ESTABLISHED on the SYN+ACK, replying
\* with the final ACK.
TCPHandshake ==
  /\ HandshakeStart ~> HandshakeDone
  /\ ((HandshakeStart \/ HandshakeDone) /\ acceptPc["B"] = "listen")
        ~> (HandshakeDone /\ acceptPc["B"] = "returned")
  /\ [][/\ sock'["B"].state # sock["B"].state => PassiveStep("B")
        /\ sock'["A"].state # sock["A"].state => ActiveStep("A")]_vars

\* both calls have returned on an open connection
TCPHandshakeWitness ==
  /\ HandshakeDone
  /\ acceptPc["B"] = "returned"
  /\ sock["B"].send_base = sock["B"].seq_num
  /\ sock["A"].ack_num = sock["B"].seq_num

(***************************************************************************)
(* connect against a peer that is not there.                               *)
(***************************************************************************)
\* connect has raised and the endpoint is back in CLOSED
ConnectFailed(e) == connectPc[e] = "raised" /\ sock[e].state = "CLOSED"

\* C12: connect() to a peer that never responds raises once its bounded
\* wait is over and leaves the endpoint in CLOSED; the endpoint never stays
\* in SYN_SENT for ever.
TCPConnectGivesUp ==
  /\ (connectPc["A"] = "waiting")
        ~> (sock["B"].running \/ ConnectFailed("A"))
  /\ []((connectPc["A"] = "raised" /\ ~sock["B"].running)
          => sock["A"].state = "CLOSED")
  /\ (sock["A"].state = "SYN_SENT") ~> (sock["A"].state # "SYN_SENT")

\* connect has given up on a peer that was never started
TCPConnectGivesUpWitness ==
  /\ ConnectFailed("A")
  /\ ~sock["B"].running
  /\ net["B"] # <<>>

(***************************************************************************)
(* The blocking calls.                                                     *)
(***************************************************************************)
\* C13: a call of connect(), of accept() or of recv() returns or raises
\* after a bounded wait, whatever the peer does: none blocks for ever.
TCPCallsReturn ==
  /\ (connectPc["A"] \in {"waiting", "expiring"})
        ~> (connectPc["A"] \in {"returned", "raised"})
  /\ (acceptPc["B"] \in {"listen", "syn_rcvd"})
        ~> (acceptPc["B"] \in {"returned", "raised"})
  /\ (recvPc["B"] = "waiting") ~> (recvPc["B"] \in {"data", "empty"})

(***************************************************************************)
(* A timer and its handler as two steps: the threading.Timer started at    *)
(* lines 597-598 expires, after which cancel() no longer stops it, and     *)
(* its thread then runs _timeout_handler, lines 601-633, while the other   *)
(* threads run.                                                            *)
(***************************************************************************)
\* the timer of seq_num expires
TimerExpired(s, seq_num) == [s EXCEPT !.timers = @ \ {seq_num}]

TCPTimeoutFire(e, t) ==
  /\ t \in sock[e].timers
  /\ sock' = [sock EXCEPT ![e] = TimerExpired(@, t)]
  /\ handling' = [handling EXCEPT ![e] = @ \cup {t}]
  /\ UNCHANGED <<net, dropped, closePc, connectPc, acceptPc, recvPc>>
  /\ UNCHANGED nonTCP

\* lines 601-633; on a closed socket sendto raises and the handler ends at
\* line 630, before any timer is started
TCPTimeoutRun(e, t) ==
  /\ t \in handling[e]
  /\ IF closePc[e] = "done"
       THEN /\ sock' = [sock EXCEPT ![e].retransmissions = Inc(@)]
            /\ UNCHANGED <<net, dropped>>
       ELSE Effect(e, TimeoutHandler(sock[e], t), 0)
  /\ handling' = [handling EXCEPT ![e] = @ \ {t}]
  /\ UNCHANGED <<closePc, connectPc, acceptPc, recvPc>>
  /\ UNCHANGED nonTCP

(***************************************************************************)
(* close, lines 522-589, as the caller's thread runs it while the receive  *)
(* thread and the timer threads run.                                       *)
(***************************************************************************)
\* lines 524-525: nothing to close
TCPCloseClosed(e) ==
  /\ closePc[e] = "none"
  /\ sock[e].state = "CLOSED"
  /\ closePc' = [closePc EXCEPT ![e] = "returned"]
  /\ UNCHANGED <<sock, net, dropped, tcpCalls>>
  /\ UNCHANGED nonTCP

\* lines 578-580 without the change of state
CloseStoppedKeepsState(s) == [s EXCEPT !.running = FALSE]

\* lines 578-580
CloseStopped(s) == [s EXCEPT !.running = FALSE, !.state = "CLOSED"]

\* lines 575-580: the waits are over
TCPCloseStop(e) ==
  /\ closePc[e] = "waiting"
  /\ sock' = [sock EXCEPT ![e] = CloseStopped(@)]
  /\ closePc' = [closePc EXCEPT ![e] = "stopped"]
  /\ UNCHANGED <<net, dropped, tcpCalls>>
  /\ UNCHANGED nonTCP

\* lines 582-586
TCPCloseCancel(e) ==
  /\ closePc[e] = "stopped"
  /\ sock' = [sock EXCEPT ![e].timers = {}]
  /\ closePc' = [closePc EXCEPT ![e] = "cancelled"]
  /\ UNCHANGED <<net, dropped, tcpCalls>>
  /\ UNCHANGED nonTCP

\* lines 588-589: the socket is closed and close returns
TCPCloseSocket(e) ==
  /\ closePc[e] = "cancelled"
  /\ net' = [net EXCEPT ![e] = <<>>]
  /\ closePc' = [closePc EXCEPT ![e] = "done"]
  /\ UNCHANGED <<sock, dropped, tcpCalls>>
  /\ UNCHANGED nonTCP

TCPClose(e) ==
  \/ TCPCloseClosed(e)
  \/ TCPCloseBegin(e)
  \/ TCPCloseStop(e)
  \/ TCPCloseCancel(e)
  \/ TCPCloseSocket(e)

(***************************************************************************)
(* Closing a connection as in test_connection_close                        *)
(* (src/testes/test_fase3.py lines 203-232): a connection is opened and    *)
(* either side may close at any time; no data is sent and nothing is lost  *)
(* on the way to an open socket.                                           *)
(***************************************************************************)
TCPCloseNext ==
  \/ TCPConnect("A")
  \/ TCPConnectWait("A")
  \/ TCPListen("B")
  \/ \E e \in Endpoints : \E isn \in ISNs : TCPProcess(e, isn)
  \/ \E e \in Endpoints : TCPClose(e)

\* The receive threads handle what arrives and the application's threads
\* go on inside connect and close; whether and when the application calls
\* close is left open.
TCPCloseFairness ==
  /\ WF_vars(\E isn \in ISNs : TCPProcess("A", isn))
  /\ WF_vars(\E isn \in ISNs : TCPProcess("B", isn))
  /\ WF_vars(TCPConnectWait("A"))
  /\ \A e \in Endpoints :
       WF_vars(TCPCloseStop(e) \/ TCPCloseCancel(e) \/ TCPCloseSocket(e))

SpecTCPClose == InitTCP /\ [][TCPCloseNext]_vars /\ TCPCloseFairness

(***************************************************************************)
(* A sender that closes while its retransmission timers run: the client    *)
(* connects, sends chunks of one full segment, its timers expire and it    *)
(* may close at any time.                                                  *)
(***************************************************************************)
TCPTimersNext ==
  \/ TCPConnect("A")
  \/ TCPListen("B")
  \/ TCPSend("A", MAX_SEGMENT_SIZE)
  \/ \E e \in Endpoints : \E isn \in ISNs : TCPProcess(e, isn)
  \/ \E t \in sock["A"].timers : TCPTimeoutFire("A", t)
  \/ \E t \in handling["A"] : TCPTimeoutRun("A", t)
  \/ TCPClose("A")

SpecTCPTimers == InitTCP /\ [][TCPTimersNext]_vars

(***************************************************************************)
(* Teardown.                                                               *)
(***************************************************************************)
\* in this step the receive thread of endpoint e handles a segment
Handles(e) ==
  /\ sock[e].running
  /\ net[e] # <<>>
  /\ net'[e] = Tail(net[e])

\* in this step close() is called at endpoint e
CloseCalled(e) == closePc[e] = "none" /\ closePc'[e] = "waiting"

\* in this step endpoint e sends its FIN, unless the peer's socket is closed
FinSent(e) ==
  \/ closePc[Peer(e)] = "done"
  \/ SentTo(Peer(e), {"FIN", "ACK"}, sock[e].ack_num)

\* C14: active close: close() in ESTABLISHED sends a FIN and moves to
\* FIN_WAIT_1; the peer's ACK of that FIN moves the endpoint to FIN_WAIT_2;
\* the peer's FIN, received there, completes the close.
TCPActiveClose ==
  /\ [][\A e \in Endpoints :
          /\ (sock[e].state = "ESTABLISHED" /\ CloseCalled(e))
               => (sock'[e].state = "FIN_WAIT_1" /\ FinSent(e))
          /\ (/\ sock[e].state = "FIN_WAIT_1"
              /\ Handles(e)
              /\ Handled(e).flags = {"ACK"}
              /\ Handled(e).ack_num = sock[e].seq_num + 1)
               => sock'[e].state = "FIN_WAIT_2"]_vars
  /\ \A e \in Endpoints :
       (sock[e].state = "FIN_WAIT_2") ~> (sock[e].state = "CLOSED")

\* in this step endpoint e answers the segment it handles with an ACK
AckSent(e) ==
  \/ closePc[Peer(e)] = "done"
  \/ SentTo(Peer(e), {"ACK"}, Handled(e).seq_num + 1)

\* C15: passive close: an endpoint in ESTABLISHED that receives a FIN
\* replies with an ACK and moves to CLOSE_WAIT; close() called in
\* CLOSE_WAIT sends a FIN and moves to LAST_ACK, and from LAST_ACK the
\* endpoint reaches CLOSED.
TCPPassiveClose ==
  /\ [][\A e \in Endpoints :
          /\ (/\ sock[e].state = "ESTABLISHED"
              /\ Handles(e)
              /\ "FIN" \in Handled(e).flags)
               => (sock'[e].state = "CLOSE_WAIT" /\ AckSent(e))
          /\ (sock[e].state = "CLOSE_WAIT" /\ CloseCalled(e))
               => (sock'[e].state = "LAST_ACK" /\ FinSent(e))]_vars
  /\ \A e \in Endpoints :
       (sock[e].state = "LAST_ACK") ~> (sock[e].state = "CLOSED")

\* the passive closer has closed after the active closer's FIN
TCPPassiveCloseWitness ==
  /\ closePc["A"] = "waiting"
  /\ sock["A"].state = "FIN_WAIT_1"
  /\ closePc["B"] = "done"
  /\ sock["B"].state = "CLOSED"
  /\ sock["B"].ack_num = sock["A"].seq_num + 1

TCPNoTimerAfterClose ==
  /\ [](\A e \in Endpoints : closePc[e] = "done" => sock[e].timers = {})
  /\ [][\A e \in Endpoints :
          closePc[e] = "done" => handling'[e] \subseteq handling[e]]_vars

\* in this step the handler of the timer of t runs at endpoint e
HandlerRuns(e, t) == t \in handling[e] /\ t \notin handling'[e]

\* C18: a retransmission timer whose handler runs after the segment it
\* guards has been acknowledged is a no-op: nothing is retransmitted, no
\* timer is started and the retransmission counter stays as it is.
TCPAckedTimerNoOp ==
  [][\A e \in Endpoints : \A t \in handling[e] :
       (HandlerRuns(e, t) /\ t \notin DOMAIN sock[e].unacked_segments)
         => (sock'[e] = sock[e] /\ net' = net)]_vars

(***************************************************************************)
(* Go-Back-N: replayed ACKs and the full window.                           *)
(***************************************************************************)
\* in this step the ACK thread takes the valid ACK frame f, whose number
\* is that of the last ACK processed or a lower one
GBNReplayedAck(f) ==
  /\ ackThread
  /\ f \in ackChan
  /\ ackChan' = ackChan \ {f}
  /\ f.type = "ACK"
  /\ f.ok
  /\ base > 0
  /\ AckedBase(f.seq) <= base

\* C19: processing a valid ACK whose cumulative number is equal to or
\* lower than one already processed leaves base, nextseqnum, the buffered
\* frames and the timer as they are.
GBNAckIdempotent ==
  [][\A f \in ackChan :
       GBNReplayedAck(f) => UNCHANGED <<base, nextseqnum, sndpkt, gbnTimer>>]_vars

\* in this step rdt_send is called with the window full
GBNCalledWhenFull ==
  /\ sendPc = "idle"
  /\ calls' = calls + 1
  /\ nextseqnum = base + N

\* C20: rdt_send called when nextseqnum = base + N returns failure at once,
\* transmits no frame and leaves base, nextseqnum, the buffered frames and
\* the timer as they are; the refused payload is not queued.
GBNRefusal ==
  /\ [][GBNCalledWhenFull =>
          /\ sendPc' = "idle"
          /\ UNCHANGED <<base, nextseqnum, sndpkt, gbnTimer, dataChan,
                         accepted>>]_vars
  /\ [](\A seq \in DOMAIN sndpkt :
          \E i \in 1..Len(accepted) : accepted[i] = sndpkt[seq])

\* a call was refused and the window is still full
GBNRefusalWitness ==
  /\ sendPc = "idle"
  /\ calls > Len(accepted)
  /\ nextseqnum = base + N
  /\ Cardinality(DOMAIN sndpkt) = N

(***************************************************************************)
(* rdt3.0 over an UnreliableChannel with loss_rate = 0 and a positive      *)
(* corrupt_rate (src/utils/simulator.py lines 28-48): a frame leaves the   *)
(* channel only by being handed over, damaged or not.                      *)
(***************************************************************************)
RDT30CorruptNext ==
  \/ RDT30Send
  \/ RDT30AckArrives
  \/ \E i \in 1..Len(rdt30Ack) : \E g \in Corruptions(rdt30Ack[i]) :
       RDT30RcvAck(i, g)
  \/ RDT30TimeoutFire
  \/ RDT30TimeoutRun
  \/ RDT30DataArrives
  \/ \E i \in 1..Len(rdt30Data) : \E g \in Corruptions(rdt30Data[i]) :
       RDT30RcvData(i, g)

SpecRDT30Corrupt == InitRDT30 /\ [][RDT30CorruptNext]_vars

\* in this step the sender, awaiting an ACK, reads the i-th frame in flight
RDT30Reads(i) ==
  /\ rdt30State \in {"WAIT_ACK_0", "WAIT_ACK_1"}
  /\ i \in 1..Len(rdt30Ack)
  /\ rdt30Ack' = RemoveAt(rdt30Ack, i)

\* the sender does nothing: no frame sent, timer, state and frame kept
RDT30NoAction ==
  UNCHANGED <<rdt30State, rdt30Sndpkt, rdt30Timer, rdt30Retransmissions,
              rdt30HandlerPc, rdt30Returned, rdt30Data>>

RDT20Fates(f) ==
  IF rdt20Corrupted < MaxCorrupt THEN {f} \cup Corruptions(f) ELSE {f}

RDT20Count(f, g) == IF g = f THEN rdt20Corrupted ELSE rdt20Corrupted + 1

\* RDT20Sender.rdt_send, lines 162-199; g is what the channel makes of the
\* frame
RDT20Send(g) ==
  /\ rdt20State = "WAIT_CALL"
  /\ rdt20Submitted < MaxMsgs
  /\ rdt20Submitted' = rdt20Submitted + 1
  /\ rdt20Sndpkt' = <<MakeFrame("DATA", 0, rdt20Submitted + 1)>>
  /\ g \in RDT20Fates(rdt20Sndpkt'[1])
  /\ rdt20Data' = Append(rdt20Data, g)
  /\ rdt20Corrupted' = RDT20Count(rdt20Sndpkt'[1], g)
  /\ rdt20State' = "WAIT_ACK_OR_NAK"
  /\ UNCHANGED <<rdt20Retransmissions, rdt20Messages, rdt20Ack>>
  /\ UNCHANGED nonRDT20

\* a sender that sends again only on a NAK
RDT20RetransmitsOnNak(f) == f.type = "NAK"

\* RDT20Sender._wait_for_ack_or_nak, lines 215-236: isNAK or corrupt
RDT20Retransmits(f) == f.type = "NAK" \/ ~f.ok

\* RDT20Sender._wait_for_ack_or_nak, lines 201-259: one reply read; g is
\* what the channel makes of a frame sent again
RDT20RcvReply(g) ==
  /\ rdt20State = "WAIT_ACK_OR_NAK"
  /\ rdt20Ack # <<>>
  /\ rdt20Ack' = Tail(rdt20Ack)
  /\ IF RDT20Retransmits(Head(rdt20Ack))
       THEN /\ rdt20Retransmissions' = Inc(rdt20Retransmissions)
            /\ g \in RDT20Fates(rdt20Sndpkt[1])
            /\ rdt20Data' = Append(rdt20Data, g)
            /\ rdt20Corrupted' = RDT20Count(rdt20Sndpkt[1], g)
            /\ UNCHANGED <<rdt20State, rdt20Sndpkt>>
       ELSE /\ IF Head(rdt20Ack).type = "ACK"
                 THEN rdt20State' = "WAIT_CALL" /\ rdt20Sndpkt' = <<>>
                 ELSE UNCHANGED <<rdt20State, rdt20Sndpkt>>
            /\ UNCHANGED <<rdt20Retransmissions, rdt20Data, rdt20Corrupted>>
  /\ UNCHANGED <<rdt20Submitted, rdt20Messages>>
  /\ UNCHANGED nonRDT20

\* RDT20Receiver.rdt_rcv, lines 384-450: one frame read; g is what the
\* channel makes of the reply
RDT20RcvData(g) ==
  /\ rdt20Data # <<>>
  /\ rdt20Data' = Tail(rdt20Data)
  /\ LET f == Head(rdt20Data)
         reply == MakeFrame(IF f.ok THEN "ACK" ELSE "NAK", 0, Empty)
     IN /\ IF ~f.ok \/ f.type = "DATA"
             THEN /\ g \in RDT20Fates(reply)
                  /\ rdt20Ack' = Append(rdt20Ack, g)
                  /\ rdt20Corrupted' = RDT20Count(reply, g)
             ELSE UNCHANGED <<rdt20Ack, rdt20Corrupted>>
        /\ rdt20Messages' = IF f.ok /\ f.type = "DATA"
                              THEN Append(rdt20Messages, f.data)
                              ELSE rdt20Messages
  /\ UNCHANGED <<rdt20State, rdt20Sndpkt, rdt20Retransmissions, rdt20Submitted>>
  /\ UNCHANGED nonRDT20

AllFrames ==
  LET Intact == {MakeFrame("DATA", 0, d) : d \in 1..MaxMsgs}
                  \cup {MakeFrame("ACK", 0, Empty), MakeFrame("NAK", 0, Empty)}
  IN Intact \cup UNION {Corruptions(f) : f \in Intact}

RDT20Next ==
  \/ \E g \in AllFrames : RDT20Send(g)
  \/ \E g \in AllFrames : RDT20RcvReply(g)
  \/ \E g \in AllFrames : RDT20RcvData(g)

InitRDT20 ==
  GBNInit /\ RDT30Parked /\ RDT21Init /\ RDT20Init /\ TCPParked
  /\ RTTParked

SpecRDT20 == InitRDT20 /\ [][RDT20Next]_vars

\* the step in which the rdt2.0 sender reads one reply
RDT20ReadsReply == rdt20Ack # <<>> /\ rdt20Ack' = Tail(rdt20Ack)

\* the step in which the rdt2.0 receiver reads one frame
RDT20ReadsData == rdt20Data # <<>> /\ rdt20Data' = Tail(rdt20Data)

\* the payload of the outstanding frame has been handed to the application
RDT20Delivered ==
  /\ rdt20Sndpkt # <<>>
  /\ \E i \in 1..Len(rdt20Messages) : rdt20Messages[i] = rdt20Sndpkt[1].data

\* C22: rdt2.0 has no sequence numbers: a sender whose DATA frame was
\* already delivered and that reads a corrupted reply puts the same DATA
\* frame on the channel again and keeps it outstanding, and the receiver
\* hands the payload of every intact DATA frame it reads to the application,
\* whether or not it delivered that payload before
RDT20DuplicateDelivery ==
  [][ /\ (RDT20ReadsReply /\ RDT20Delivered /\ ~Head(rdt20Ack).ok)
           => /\ Len(rdt20Data') = Len(rdt20Data) + 1
              /\ rdt20Data'[Len(rdt20Data')]
                   \in {rdt20Sndpkt[1]} \cup Corruptions(rdt20Sndpkt[1])
              /\ rdt20Sndpkt' = rdt20Sndpkt
              /\ rdt20State' = rdt20State
      /\ (RDT20ReadsData /\ Head(rdt20Data).ok /\ Head(rdt20Data).type = "DATA")
           => rdt20Messages' = Append(rdt20Messages, Head(rdt20Data).data)
    ]_vars

\* one payload was submitted and the application received it twice
RDT20DuplicateWitness ==
  /\ rdt20Submitted = 1
  /\ rdt20Messages = <<1, 1>>
  /\ rdt20Retransmissions >= 1

(***************************************************************************)
(* rdt3.0 over a channel that loses and damages nothing and whose delays   *)
(* are shorter than the retransmission timeout (run_rdt30_variable_delay:  *)
(* loss 0, corruption 0, delay 50-500 ms): every frame sent is handed      *)
(* over, and stop_timer cancels the timer before it expires, so            *)
(* _timeout_handler never runs.                                            *)
(***************************************************************************)
RDT30TimelyNext ==
  \/ RDT30SendUpTo(MaxRun)
  \/ RDT30DataArrives
  \/ RDT30AckArrives

SpecRDT30Timely == InitRDT30 /\ [][RDT30TimelyNext]_vars

GBNCorruptAck(f, g) ==
  /\ f \in ackChan
  /\ f.ok
  /\ g \in Corruptions(f)
  /\ g \notin ackChan
  /\ ackChan' = (ackChan \ {f}) \cup {g}
  /\ UNCHANGED <<gbnSender, gbnReceiver, dataChan, packetState>>
  /\ UNCHANGED nonGBN

GBNAcksNext ==
  \/ GBNSendBegin
  \/ GBNSendEnd
  \/ \E f \in ackChan : GBNAckRcv(f, f)
  \/ \E f \in ackChan : \E g \in Corruptions(f) : GBNCorruptAck(f, g)
  \/ \E f \in dataChan : GBNRcv(f, f)

SpecGBNAcks == InitGBN /\ [][GBNAcksNext]_vars

\* in this step the ACK thread reads the frame f
GBNReadsAck(f) == ackThread /\ f \in ackChan /\ ackChan' = ackChan \ {f}

\* C24: when the ACK thread reads a valid ACK numbered a, base becomes
\* a + 1, the buffer keeps exactly the frames numbered base or higher, each
\* unchanged, and the timer is stopped if base equals nextseqnum and
\* running otherwise; when it reads a damaged frame, base, nextseqnum, the
\* buffer and the timer stay as they are
GBNAckProcessing ==
  [][\A f \in ackChan :
       GBNReadsAck(f) =>
         IF f.ok /\ f.type = "ACK"
           THEN /\ base' = f.seq + 1
                /\ nextseqnum' = nextseqnum
                /\ DOMAIN sndpkt' = {s \in DOMAIN sndpkt : s >= base'}
                /\ \A s \in DOMAIN sndpkt' : sndpkt'[s] = sndpkt[s]
                /\ gbnTimer' = (base' # nextseqnum')
           ELSE UNCHANGED <<base, nextseqnum, sndpkt, gbnTimer>>]_vars

\* a valid ACK 0 was processed with frame 1 outstanding: frame 0 left the
\* buffer and the timer runs, while the damaged ACK of frame 1 waits to be
\* read
GBNAckWitness ==
  /\ base = 1
  /\ nextseqnum = 2
  /\ DOMAIN sndpkt = {1}
  /\ gbnTimer
  /\ expectedseqnum = 2
  /\ ackChan = {CorruptKeepType(MakeFrame("ACK", 1, Empty))}

(***************************************************************************)
(* Go-Back-N over a channel that loses and damages nothing, with the timer *)
(* thread: the timer may expire before the ACKs are back, and the ACK      *)
(* thread and the caller run while the handler loops.                      *)
(***************************************************************************)
GBNTimerNext ==
  \/ GBNSendBegin
  \/ GBNSendEnd
  \/ \E f \in ackChan : GBNAckRcv(f, f)
  \/ GBNTimeoutFire
  \/ GBNTimeoutStep
  \/ GBNTimeoutRestart
  \/ \E f \in dataChan : GBNRcv(f, f)

SpecGBNTimer == InitGBN /\ [][GBNTimerNext]_vars

GBNWindowBuffered ==
  \A s \in base..(nextseqnum - 1) : s \in DOMAIN sndpkt

\* C26, second half: a frame leaves the buffer only in a step after which
\* its sequence number is below base.
GBNEvictsOnlyAcked ==
  [][\A s \in DOMAIN sndpkt : s \notin DOMAIN sndpkt' => s < base']_vars

(***************************************************************************)
(* Go-Back-N with the damage to a DATA frame drawn before the delay, as    *)
(* for the ACKs above, and with the timer thread, whose retransmissions    *)
(* reach the receiver as duplicates.  The sender's ACK thread, which does  *)
(* not take part in what the receiver does with a frame, is left out: the  *)
(* ACKs stay in the channel.                                               *)
(***************************************************************************)
GBNCorruptData(f, g) ==
  /\ f \in dataChan
  /\ f.ok
  /\ g \in Corruptions(f)
  /\ g \notin dataChan
  /\ dataChan' = (dataChan \ {f}) \cup {g}
  /\ UNCHANGED <<gbnSender, gbnReceiver, ackChan, packetState>>
  /\ UNCHANGED nonGBN

GBNDataNext ==
  \/ GBNSendBegin
  \/ GBNSendEnd
  \/ GBNTimeoutFire
  \/ GBNTimeoutStep
  \/ GBNTimeoutRestart
  \/ \E f \in dataChan : \E g \in Corruptions(f) : GBNCorruptData(f, g)
  \/ \E f \in dataChan : GBNRcv(f, f)

SpecGBNData == InitGBN /\ [][GBNDataNext]_vars

\* in this step the receiver reads the frame f
GBNReadsData(f) == f \in dataChan /\ dataChan' = dataChan \ {f}

RDT21Replies ==
  LET Intact == {MakeFrame("ACK", 0, Empty), MakeFrame("ACK", 1, Empty),
                 MakeFrame("NAK", 0, Empty)}
  IN Intact \cup UNION {Corruptions(f) : f \in Intact}

RDT21AnyReply(i, g) ==
  /\ i \in 1..Len(rdt21Data)
  /\ rdt21Data' = RemoveAt(rdt21Data, i)
  /\ rdt21Ack' = Put(rdt21Ack, g)
  /\ UNCHANGED <<rdt21Sender, rdt21Receiver>>
  /\ UNCHANGED nonRDT21

RDT21SenderNext ==
  \/ RDT21Send
  \/ \E i \in 1..Len(rdt21Data) : \E g \in RDT21Replies : RDT21AnyReply(i, g)
  \/ \E i \in 1..Len(rdt21Ack) : RDT21RcvReply(i, rdt21Ack[i])

SpecRDT21Sender == InitRDT21 /\ [][RDT21SenderNext]_vars

\* the sequence bit of the ACK the rdt2.1 sender awaits
RDT21Awaited == IF rdt21State = "WAIT_ACK_OR_NAK_0" THEN 0 ELSE 1

\* in this step the waiting rdt2.1 sender reads the i-th reply
RDT21Reads(i) ==
  /\ rdt21State \in {"WAIT_ACK_OR_NAK_0", "WAIT_ACK_OR_NAK_1"}
  /\ i \in 1..Len(rdt21Ack)
  /\ rdt21Ack' = RemoveAt(rdt21Ack, i)

\* C28: an rdt2.1 sender awaiting the ACK for bit b that reads a valid ACK
\* carrying 1-b sends the outstanding DATA frame again and stays in the
\* same state, and it moves on to the wait-for-call state of bit 1-b only
\* when it reads a valid ACK carrying b.
RDT21WrongAckRetransmits ==
  [][\A i \in 1..Len(rdt21Ack) :
       RDT21Reads(i) =>
         /\ (rdt21Ack[i].ok /\ rdt21Ack[i].type = "ACK"
                /\ rdt21Ack[i].seq # RDT21Awaited)
               => /\ rdt21State' = rdt21State
                  /\ rdt21Sndpkt' = rdt21Sndpkt
                  /\ rdt21Data' = Put(rdt21Data, rdt21Sndpkt[1])
         /\ rdt21State' # rdt21State
               => /\ rdt21Ack[i].ok /\ rdt21Ack[i].type = "ACK"
                  /\ rdt21Ack[i].seq = RDT21Awaited
                  /\ rdt21State' = IF RDT21Awaited = 0 THEN "WAIT_CALL_1"
                                                       ELSE "WAIT_CALL_0"]_vars

(***************************************************************************)
(* rdt3.0 with the damage to an ACK drawn where UnreliableChannel.send     *)
(* draws it, before the delay: the frame waits in the channel as the       *)
(* sender will read it.  Frames of both directions may be lost.            *)
(***************************************************************************)
RDT30DamageAck(i, g) ==
  /\ i \in 1..Len(rdt30Ack)
  /\ rdt30Ack[i].ok
  /\ g \in Corruptions(rdt30Ack[i])
  /\ rdt30Ack' = [rdt30Ack EXCEPT ![i] = g]
  /\ UNCHANGED <<rdt30Sender, rdt30Receiver, rdt30Data, rdt30Reorder>>
  /\ UNCHANGED nonRDT30

RDT30TimerNext ==
  \/ RDT30Send
  \/ RDT30AckArrives
  \/ \E i \in 1..Len(rdt30Ack) : \E g \in Corruptions(rdt30Ack[i]) :
       RDT30DamageAck(i, g)
  \/ RDT30TimeoutFire
  \/ RDT30TimeoutRun
  \/ RDT30DataArrives
  \/ \E i \in 1..Len(rdt30Data) : RDT30LoseData(i)
  \/ \E i \in 1..Len(rdt30Ack) : RDT30LoseAck(i)

SpecRDT30Timer == InitRDT30 /\ [][RDT30TimerNext]_vars

TCPAcksNext ==
  \/ TCPConnect("A")
  \/ TCPListen("B")
  \/ \E n \in 1..MAX_SEGMENT_SIZE : TCPSend("A", n)
  \/ \E e \in Endpoints : \E isn \in ISNs : TCPProcess(e, isn)
  \/ TCPCloseBegin("A")

SpecTCPAcks == InitTCP /\ [][TCPAcksNext]_vars

\* in this step endpoint e handles a segment that carries only an ACK, with
\* a number above send_base, outside the handshake
TCPHandlesNewAck(e) ==
  /\ Handles(e)
  /\ Handled(e).flags = {"ACK"}
  /\ sock[e].state # "SYN_RCVD"
  /\ Handled(e).ack_num > sock[e].send_base

\* C30: an ACK with number a above send_base sets send_base to a; an
\* outstanding segment with sequence + length <= a leaves the table and
\* has no timer afterwards; any other outstanding segment keeps its table
\* entry and, if its timer was pending, its timer.
TCPAckProcessing ==
  [][\A e \in Endpoints :
       TCPHandlesNewAck(e) =>
         /\ sock'[e].send_base = Handled(e).ack_num
         /\ \A q \in DOMAIN sock[e].unacked_segments :
              IF q + sock[e].unacked_segments[q].len <= Handled(e).ack_num
                THEN /\ q \notin DOMAIN sock'[e].unacked_segments
                     /\ q \notin sock'[e].timers
                ELSE /\ q \in DOMAIN sock'[e].unacked_segments
                     /\ sock'[e].unacked_segments[q] = sock[e].unacked_segments[q]
                     /\ q \in sock[e].timers => q \in sock'[e].timers]_vars

(***************************************************************************)
(* TCP: a sender whose retransmission timers expire while its segments     *)
(* and their ACKs travel; nothing is lost and neither side closes.  The    *)
(* timers expire MaxRetx times at most.                                    *)
(***************************************************************************)
TCPRetxNext ==
  \/ TCPConnect("A")
  \/ TCPListen("B")
  \/ \E n \in 1..MAX_SEGMENT_SIZE : TCPSend("A", n)
  \/ \E e \in Endpoints : \E isn \in ISNs : TCPProcess(e, isn)
  \/ \E t \in sock["A"].timers :
       /\ sock["A"].retransmissions + Cardinality(handling["A"]) < MaxRetx
       /\ TCPTimeoutFire("A", t)
  \/ \E t \in handling["A"] : TCPTimeoutRun("A", t)

SpecTCPRetx == InitTCP /\ [][TCPRetxNext]_vars

\* the segments put on the way to endpoint e in this step
NewlySent(e) == SubSeq(net'[e], Len(net[e]) + 1, Len(net'[e]))

\* C31: when the handler of the timer of sequence number t runs, the
\* segments of the outstanding table with sequence >= t, and no others,
\* are sent again, each once with its own bytes, in ascending order of
\* sequence number, and each of them has a pending timer afterwards (as
\* far as the peer's datagram queue has room for them).
TCPTimeoutRetransmits ==
  [][\A e \in Endpoints : \A t \in handling[e] :
       LET later == {q \in DOMAIN sock[e].unacked_segments : q >= t}
           resent == NewlySent(Peer(e))
       IN (HandlerRuns(e, t)
             /\ Len(net[Peer(e)]) + Cardinality(later) <= MaxQueue)
            => /\ Len(net'[Peer(e)]) >= Len(net[Peer(e)])
               /\ Len(resent) = Cardinality(later)
               /\ \A i \in 1..Len(resent) :
                    /\ resent[i].seq_num \in later
                    /\ resent[i].data =
                         sock[e].unacked_segments[resent[i].seq_num]
                    /\ \A j \in 1..Len(resent) :
                         i < j => resent[i].seq_num < resent[j].seq_num
               /\ later \subseteq sock'[e].timers
               /\ sock'[e].unacked_segments = sock[e].unacked_segments]_vars

\* the receiver has taken both outstanding segments, and both are on
\* their way to it again, the older one first
TCPTimeoutRetransmitsWitness ==
  /\ handling["A"] = {}
  /\ Len(net["B"]) = 2
  /\ HasData(net["B"][1]) /\ HasData(net["B"][2])
  /\ net["B"][1].seq_num < net["B"][2].seq_num
  /\ {net["B"][1].seq_num, net["B"][2].seq_num}
       = DOMAIN sock["A"].unacked_segments
  /\ sock["B"].ack_num
       = net["B"][2].seq_num + net["B"][2].data.len
  /\ {net["B"][1].seq_num, net["B"][2].seq_num} \subseteq sock["A"].timers

(***************************************************************************)
(* TCP: the time stamps behind the round-trip samples of one sender.  The  *)
(* socket is the one accept() returns; its peer acknowledges the           *)
(* outstanding segments, each up to its last byte, in any order and after  *)
(* any delay, so that the sender's timers may expire first.                *)
(***************************************************************************)
\* the passive side at the end of the handshake (lines 368-421)
Accepted(isn, peer_isn) ==
  LET listening == [NewSocket(0) EXCEPT !.state = "LISTEN", !.running = TRUE]
      syn == Segment({"SYN"}, peer_isn, 0, DEFAULT_RECV_WINDOW, NoData)
  IN HandleAck(HandleSyn(listening, syn, isn).s, isn + 1).s

StampInit ==
  /\ \E isn \in ISNs :
       rttSock = [s |-> Accepted(isn, 0), send_times |-> <<>>,
                  rtt_sample |-> "none"]
  /\ estimator = NewEstimator
  /\ sampleRtt = 0
  /\ updates = 0

\* line 272: a segment _send_data puts in the table is stamped with the
\* time of this, its first, transmission
StampSent(x, r) ==
  [x EXCEPT !.s = r.s,
            !.send_times =
               [q \in DOMAIN r.s.unacked_segments
                        \ DOMAIN x.s.unacked_segments |-> "sent"] @@ @]

\* line 632: a segment the handler sends again is stamped with the time of
\* the retransmission
StampResent(x, resent, r) ==
  [x EXCEPT !.s = r.s,
            !.send_times = [q \in resent |-> "resent"] @@ @]

\* lines 428-441: the newest time stamp below ack_num gives the sample
\* handed to _update_rtt, and the stamps below ack_num are dropped
SampleRtt(x, ack_num) ==
  LET stamped == {q \in DOMAIN x.send_times : q < ack_num}
      seq == CHOOSE q \in stamped : \A r \in stamped : r <= q
  IN IF stamped = {} THEN x
     ELSE [x EXCEPT !.rtt_sample = x.send_times[seq],
                    !.send_times = Restrict(@, DOMAIN @ \ stamped)]

\* send, lines 213-240, of a chunk of n bytes
StampSend(n) ==
  /\ rttSock.s.bytes_sent + n <= MaxBytes
  /\ rttSock' =
       StampSent(rttSock,
                 SendData([rttSock.s EXCEPT
                    !.send_buffer =
                       Append(@, [first |-> rttSock.s.bytes_sent + 1,
                                  len |-> n]),
                    !.bytes_sent = @ + n]))
  /\ UNCHANGED <<estimator, sampleRtt, updates>>
  /\ UNCHANGED nonRTT

\* _receive_loop, lines 322-343: the peer's ACK of the outstanding segment
\* q arrives
StampAck(q) ==
  LET ack_num == q + rttSock.s.unacked_segments[q].len
      segment == Segment({"ACK"}, 1, ack_num, DEFAULT_RECV_WINDOW, NoData)
      sampled == IF AckAdvances(rttSock.s, ack_num)
                   THEN SampleRtt(rttSock, ack_num) ELSE rttSock
  IN /\ rttSock' = StampSent(sampled, ProcessSegment(rttSock.s, segment, 0))
     /\ UNCHANGED <<estimator, sampleRtt, updates>>
     /\ UNCHANGED nonRTT

\* _timeout_handler, lines 601-633, for the timer of seq_num
StampTimeout(seq_num) ==
  /\ seq_num \in rttSock.s.timers
  /\ rttSock.s.retransmissions < MaxRetx
  /\ rttSock' = StampResent(rttSock, Pending(rttSock.s, seq_num),
                            TimeoutHandler(rttSock.s, seq_num))
  /\ UNCHANGED <<estimator, sampleRtt, updates>>
  /\ UNCHANGED nonRTT

StampNext ==
  \/ \E n \in 1..MAX_SEGMENT_SIZE : StampSend(n)
  \/ \E q \in DOMAIN rttSock.s.unacked_segments : StampAck(q)
  \/ \E t \in rttSock.s.timers : StampTimeout(t)

InitStamps ==
  GBNInit /\ RDT30Parked /\ RDT21Init /\ RDT20Init /\ TCPParked /\ StampInit

SpecTCPStamps == InitStamps /\ [][StampNext]_vars

\* C32: no sample handed to the RTT estimator is measured from the time
\* stamp of a segment that has been sent more than once.
TCPSamplesFirstTransmissions == rttSock.rtt_sample # "resent"

(***************************************************************************)
(* TCP: the RTT estimator, given the same sample again and again.  The     *)
(* estimator starts from the constructor's values or from any other        *)
(* multiples of half a second up to MaxRtt, with a deviation >= 0.         *)
(***************************************************************************)
Abs(x) == IF x < 0 THEN -x ELSE x

\* multiples of half a second
HalfSeconds == {i * (Scale \div 2) : i \in 0..(2 * MaxRtt)}

\* _calculate_timeout, lines 635-637
CalculateTimeout(e) == e.estimated_rtt + 4 * e.dev_rtt

\* an update that computes the timeout and leaves the estimates alone
UpdateRttFrozen(e, sample_rtt) ==
  [e EXCEPT !.timeout_interval = CalculateTimeout(e)]

\* _update_rtt, lines 639-643: the factors 0.875, 0.125, 0.75 and 0.25 are
\* eighths and quarters, and the deviation is taken from the new estimate
UpdateRtt(e, sample_rtt) ==
  LET estimated_rtt == (7 * e.estimated_rtt + sample_rtt) \div 8
      dev_rtt == (3 * e.dev_rtt + Abs(sample_rtt - estimated_rtt)) \div 4
      updated == [e EXCEPT !.estimated_rtt = estimated_rtt,
                           !.dev_rtt = dev_rtt]
  IN [updated EXCEPT !.timeout_interval = CalculateTimeout(updated)]

EstimatorInit ==
  /\ \E estimated_rtt \in HalfSeconds : \E dev_rtt \in HalfSeconds :
       \E timeout_interval \in {INITIAL_TIMEOUT * Scale,
                                estimated_rtt + 4 * dev_rtt} :
         estimator = [estimated_rtt |-> estimated_rtt, dev_rtt |-> dev_rtt,
                      timeout_interval |-> timeout_interval]
  /\ sampleRtt \in HalfSeconds \ {0}
  /\ updates = 0
  /\ rttSock = [s |-> NewSocket(0), send_times |-> <<>>,
                rtt_sample |-> "none"]

\* one more call of _update_rtt with the sample
EstimatorUpdate ==
  /\ updates < MaxUpdates
  /\ estimator' = UpdateRtt(estimator, sampleRtt)
  /\ updates' = updates + 1
  /\ UNCHANGED <<rttSock, sampleRtt>>
  /\ UNCHANGED nonRTT

InitEstimator ==
  GBNInit /\ RDT30Parked /\ RDT21Init /\ RDT20Init /\ TCPParked
  /\ EstimatorInit

SpecTCPEstimator == InitEstimator /\ [][EstimatorUpdate]_vars

\* how far an estimator state is from the sample
EstimatorError(e) == e.dev_rtt + 4 * Abs(e.estimated_rtt - sampleRtt)

\* C35: every update with the same sample s brings estimated_rtt closer to
\* s by the factor 7/8, shrinks dev_rtt + 4 * |estimated_rtt - s| by the
\* factor 15/16 at least, and leaves timeout_interval = estimated_rtt +
\* 4 * dev_rtt no further from s than four times that sum: estimated_rtt
\* converges to s, dev_rtt to 0 and timeout_interval to s.
TCPEstimatorConverges ==
  [][updates' = updates + 1 =>
       /\ 8 * Abs(estimator'.estimated_rtt - sampleRtt)
            = 7 * Abs(estimator.estimated_rtt - sampleRtt)
       /\ estimator'.dev_rtt >= 0
       /\ 16 * EstimatorError(estimator') <= 15 * EstimatorError(estimator)
       /\ estimator'.timeout_interval
            = estimator'.estimated_rtt + 4 * estimator'.dev_rtt
       /\ Abs(estimator'.timeout_interval - sampleRtt)
            <= 4 * EstimatorError(estimator')]_vars

\* the estimator has been updated more than once with a sample it did not
\* start at, and its deviation has not vanished
TCPEstimatorWitness ==
  /\ updates >= 2
  /\ estimator.estimated_rtt # sampleRtt
  /\ estimator.dev_rtt > 0
  /\ estimator.timeout_interval # INITIAL_TIMEOUT * Scale

(***************************************************************************)
(* TCP: the advertised window.                                             *)
(***************************************************************************)
\* the receive capacity of endpoint e not taken by bytes that recv() has
\* not read yet, before or after this step
AvailableWindow(e) ==
  {DEFAULT_RECV_WINDOW - Unread(sock[e]),
   DEFAULT_RECV_WINDOW - Unread(sock'[e])}

\* C33: every segment an endpoint sends carries as advertised window its
\* receive capacity minus the bytes held in its receive buffer and not
\* yet read by recv().
TCPAdvertisesAvailable ==
  [][\A e \in Endpoints :
       \A i \in 1..Len(NewlySent(Peer(e))) :
         NewlySent(Peer(e))[i].window_size \in AvailableWindow(e)]_vars

(***************************************************************************)
(* Go-Back-N: the timeout handler statement by statement.  base,           *)
(* nextseqnum and sndpkt are plain attributes that the caller's thread,    *)
(* the ACK thread and the timer thread use without a lock, so the other    *)
(* threads may run between the handler's test `seq in self.sndpkt` (line   *)
(* 240) and its read self.sndpkt[seq] (line 241).                          *)
(***************************************************************************)
\* line 240: the membership test of one iteration
GBNTimeoutTest ==
  /\ handlerPc = "loop"
  /\ handlerSeq < handlerEnd
  /\ IF handlerSeq \in DOMAIN sndpkt
       THEN handlerPc' = "read" /\ handlerSeq' = handlerSeq
       ELSE handlerPc' = "loop" /\ handlerSeq' = handlerSeq + 1
  /\ UNCHANGED <<base, nextseqnum, sndpkt, gbnTimer, gbnRetransmissions,
                 sendPc, handlerEnd, ackThread, calls, accepted>>
  /\ UNCHANGED <<gbnReceiver, dataChan, ackChan, packetState>>
  /\ UNCHANGED nonGBN

\* lines 241-242: udt_send(self.sndpkt[seq]) and the count; self.sndpkt[seq]
\* raises KeyError if the frame is gone, which ends the timer thread before
\* start_timer
GBNTimeoutRead ==
  /\ handlerPc = "read"
  /\ IF handlerSeq \in DOMAIN sndpkt
       THEN /\ dataChan' = dataChan \cup
                  {MakeFrame("DATA", handlerSeq, sndpkt[handlerSeq])}
            /\ gbnRetransmissions' = Inc(gbnRetransmissions)
            /\ handlerSeq' = handlerSeq + 1
            /\ handlerPc' = "loop"
       ELSE /\ handlerPc' = "idle"
            /\ UNCHANGED <<dataChan, gbnRetransmissions, handlerSeq>>
  /\ UNCHANGED <<base, nextseqnum, sndpkt, gbnTimer, sendPc, handlerEnd,
                 ackThread, calls, accepted>>
  /\ UNCHANGED <<gbnReceiver, ackChan, packetState>>
  /\ UNCHANGED nonGBN

GBNRaceNext ==
  \/ GBNSendBegin
  \/ GBNSendEnd
  \/ \E f \in ackChan : GBNAckRcv(f, f)
  \/ GBNTimeoutFire
  \/ GBNTimeoutTest
  \/ GBNTimeoutRead
  \/ GBNTimeoutRestart
  \/ \E f \in dataChan : GBNRcv(f, f)

SpecGBNRace == InitGBN /\ [][GBNRaceNext]_vars

\* C34: the timeout handler works on one consistent window: when it starts,
\* the buffered frames are exactly those of [base, nextseqnum), and the
\* frame it has found in the buffer is still there when it reads it.
GBNHandlerAtomic ==
  [][ /\ (handlerPc = "idle" /\ handlerPc' = "loop")
           => DOMAIN sndpkt = base..(nextseqnum - 1)
      /\ (handlerPc = "read" /\ handlerPc' # "read")
           => /\ handlerSeq \in DOMAIN sndpkt
              /\ handlerPc' = "loop"
    ]_vars

\* the frame the handler has tested for is still buffered when it reads it
GBNHandlerReadsBuffered == handlerPc = "read" => handlerSeq \in DOMAIN sndpkt

(***************************************************************************)
(* Go-Back-N: the sender's base and the receiver's expectedseqnum.         *)
(***************************************************************************)
\* C36: the sender's base never exceeds the receiver's expectedseqnum, and
\* no frame leaves the sender's buffer before the receiver has delivered
\* it.
GBNBaseBehindReceiver ==
  /\ base <= expectedseqnum
  /\ \A seq \in 0..(nextseqnum - 1) :
       seq \notin DOMAIN sndpkt => seq < expectedseqnum

(***************************************************************************)
(* TCP: outstanding segments and their timers.                             *)
(***************************************************************************)
\* C37: while an endpoint is not closed, every segment in its outstanding
\* table has a pending retransmission timer, or the handler of an expired
\* timer that is about to send it again and restart its timer.
TCPOutstandingTimed ==
  \A e \in Endpoints :
    sock[e].state # "CLOSED"
      => \A q \in DOMAIN sock[e].unacked_segments :
           \/ q \in sock[e].timers
           \/ \E t \in handling[e] : t <= q

(***************************************************************************)
(* TCP: send_base and seq_num.                                             *)
(***************************************************************************)
\* the handshake is over at endpoint e
Connected(e) ==
  sock[e].state \notin {"CLOSED", "LISTEN", "SYN_SENT", "SYN_RCVD"}

\* send_base <= seq_num from the end of the handshake on
TCPSendBaseBehind ==
  \A e \in Endpoints : Connected(e) => sock[e].send_base <= sock[e].seq_num

\* in this step endpoint e completes the handshake
CompletesHandshake(e) ==
  /\ sock[e].state \in {"SYN_SENT", "SYN_RCVD"}
  /\ sock'[e].state = "ESTABLISHED"

\* C38: from the end of the handshake on send_base <= seq_num, and right
\* after the handshake completes, on the active and on the passive side,
\* seq_num - send_base is 0.
TCPSendBaseBounded ==
  /\ []TCPSendBaseBehind
  /\ [][\A e \in Endpoints :
          CompletesHandshake(e)
            => sock'[e].seq_num - sock'[e].send_base = 0]_vars

(***************************************************************************)
(* TCP: two sockets of which either may call connect() towards the other,  *)
(* and B may listen instead; nothing is lost and no timer expires.         *)
(***************************************************************************)
TCPBothOpenNext ==
  \/ \E e \in Endpoints : TCPConnect(e)
  \/ TCPListen("B")
  \/ \E e \in Endpoints : \E isn \in ISNs : TCPProcess(e, isn)
  \/ \E n \in 1..MAX_SEGMENT_SIZE : TCPSend("A", n)

SpecTCPBothOpen == InitTCP /\ [][TCPBothOpenNext]_vars

\* the segment endpoint e handles is the SYN+ACK that acknowledges its SYN
AnswersSyn(e) ==
  /\ Handled(e).flags = {"SYN", "ACK"}
  /\ Handled(e).ack_num = sock[e].seq_num + 1

\* C39: an endpoint in SYN_SENT enters ESTABLISHED only on a segment that
\* carries SYN and ACK and whose ack number is its own initial sequence
\* number + 1; any other segment with SYN leaves it in SYN_SENT and makes
\* it send nothing.
TCPSynSentEstablishes ==
  [][\A e \in Endpoints :
       sock[e].state = "SYN_SENT" =>
         /\ sock'[e].state = "ESTABLISHED" => (Handles(e) /\ AnswersSyn(e))
         /\ (Handles(e) /\ "SYN" \in Handled(e).flags /\ ~AnswersSyn(e))
              => /\ sock'[e].state = "SYN_SENT"
                 /\ net'[Peer(e)] = net[Peer(e)]]_vars

(***************************************************************************)
(* TCP: the expected offset ack_num and the receive buffer.                *)
(***************************************************************************)
\* in this step endpoint e handles a FIN that sits at its expected offset
\* and counts it as one byte
CountsFin(e) ==
  /\ Handles(e)
  /\ "FIN" \in Handled(e).flags
  /\ Handled(e).seq_num = sock[e].ack_num
  /\ sock'[e].ack_num = sock[e].ack_num + 1
  /\ sock'[e].recv_buffer = sock[e].recv_buffer

\* in this step endpoint e moves ack_num by the bytes it appends
CountsAppended(e) ==
  /\ sock'[e].ack_num > sock[e].ack_num
  /\ Len(sock'[e].recv_buffer) - Len(sock[e].recv_buffer)
       = sock'[e].ack_num - sock[e].ack_num

\* C40: once connected, an endpoint moves its expected offset ack_num only
\* by the bytes it appends to the receive buffer, or by exactly one for a
\* FIN whose sequence number is the expected offset.
TCPAckNumFollowsBuffer ==
  [][\A e \in Endpoints :
       (Connected(e) /\ sock'[e].ack_num # sock[e].ack_num)
         => (CountsAppended(e) \/ CountsFin(e))]_vars

====
